---- MODULE Spec2Model ----
(***************************************************************************)
(* State-machine model of fiander (src/init.py): the TState object, the    *)
(* event loop of run(), handle_browser_key, handle_prompt_key, the         *)
(* directory-change poll, and the pure helpers fuzzy_score and             *)
(* copy_selected_text_to_clipboard.                                        *)
(*                                                                         *)
(* Strings are sequences of ASCII codes, so that lower(), splitlines(),    *)
(* join and the sort key are computed rather than assumed.  Python's None  *)
(* is the empty tuple and a present value x is <<x>>.                      *)
(***************************************************************************)
EXTENDS Integers, Sequences, FiniteSets, TLC

None == <<>>
Some(x) == <<x>>
Max(a, b) == IF a >= b THEN a ELSE b
\* a min that always answers with its second argument
Min_second(a, b) == b
Min(a, b) == IF a <= b THEN a ELSE b

(* ------------------------------------------------------------------ *)
(* Program constants and bounds                                        *)
(* ------------------------------------------------------------------ *)
PREVIEW_MAX_LINES == 400
PREVIEW_MAX_CHARS_PER_LINE == 300
MIN_HEIGHT == 8
MIN_WIDTH == 40
\* the terminal heights tried are MIN_HEIGHT..MaxHeight
MaxHeight == 8
\* how many times the world outside the program changes the file system
MaxFsChanges == 1
\* the furthest preview line a click selects
MaxLine == 6
\* the longest candidate and the longest query handed to fuzzy_score
MaxNameLen == 3
MaxQueryLen == 2
MaxPatterns == 2
\* the widest terminal a frame is drawn on
MaxWidth == 420
\* the tallest terminal of the runs that follow the viewport of a long listing
MoveMaxHeight == 9

(* ------------------------------------------------------------------ *)
(* Characters and strings                                              *)
(* ------------------------------------------------------------------ *)
NL == 10
SLASH == 47
\* str.lower() on one ASCII character
Lower(c) == IF c >= 65 /\ c <= 90 THEN c + 32 ELSE c
LowerStr(s) == [i \in 1..Len(s) |-> Lower(s[i])]
RECURSIVE StrLess(_, _)
\* Python's < on two strings
StrLess(s, t) ==
  IF t = <<>> THEN FALSE
  ELSE IF s = <<>> THEN TRUE
  ELSE IF s[1] < t[1] THEN TRUE
  ELSE IF s[1] > t[1] THEN FALSE
  ELSE StrLess(Tail(s), Tail(t))

RECURSIVE MiddleBreak(_, _, _)
\* The first "\n" at or behind the 1/d point of a text of length n.
MiddleBreak(Brk, n, d) ==
  LET U == {i \in Brk : d * i >= n}
  IN IF U # {} THEN CHOOSE i \in U : \A j \in U : i <= j
     ELSE MiddleBreak(Brk, n, 2 * d)

RECURSIVE splitlines(_)
\* str.splitlines(): lines end at "\n"; a trailing "\n" opens no empty line.
\* The text is cut behind a "\n" near its middle and the lines of the two
\* halves are joined.
splitlines(txt) ==
  IF txt = <<>> THEN <<>>
  ELSE LET n == Len(txt)
           Brk == {i \in 1..(n - 1) : txt[i] = NL}
       IN IF Brk = {}
          THEN <<IF txt[n] = NL THEN SubSeq(txt, 1, n - 1) ELSE txt>>
          ELSE LET k == MiddleBreak(Brk, n, 2)
               IN splitlines(SubSeq(txt, 1, k)) \o splitlines(SubSeq(txt, k + 1, n))

RECURSIVE join_nl(_)
\* "\n".join(lines)
join_nl(lines) ==
  IF lines = <<>> THEN <<>>
  ELSE IF Len(lines) = 1 THEN lines[1]
  ELSE lines[1] \o <<NL>> \o join_nl(Tail(lines))

\* Python's seq[a:b] for 0 <= a
Slice(seq, a, b) == SubSeq(seq, a + 1, Min(b, Len(seq)))

(* ------------------------------------------------------------------ *)
(* The file-system universe: every path that can ever exist            *)
(* ------------------------------------------------------------------ *)
Nodes == {"/", "/a", "/a/s", "/a/t", "/a/u", "/a/v", "/a/w", "/a/x", "/b", "/c",
          "/d", "/e", "/f", "/g", "/t"}
\* a parent relation in which the root lies below one of its directories
ParentOf_root_below_a(n) ==
  CASE n \in {"/a/s", "/a/t", "/a/u", "/a/v", "/a/w", "/a/x"} -> "/a"
    [] n = "/" -> "/a"
    [] OTHER -> "/"

\* Path.parent
ParentOf(n) ==
  CASE n \in {"/a/s", "/a/t", "/a/u", "/a/v", "/a/w", "/a/x"} -> "/a"
    [] OTHER -> "/"
\* Path.name
NameOf(n) ==
  CASE n = "/" -> <<>>
    [] n = "/a" -> <<97>>
    [] n = "/a/s" -> <<115>>
    [] n = "/a/t" -> <<116>>
    [] n = "/a/u" -> <<117>>
    [] n = "/a/v" -> <<118>>
    [] n = "/a/w" -> <<119>>
    [] n = "/a/x" -> <<120>>
    [] n = "/b" -> <<66>>
    [] n = "/c" -> <<99>>
    [] n = "/d" -> <<100>>
    [] n = "/e" -> <<69>>
    [] n = "/f" -> <<102>>
    [] n = "/g" -> <<103>>
    [] n = "/t" -> <<116>>
KindOf(n) ==
  CASE n \in {"/", "/a", "/a/s", "/b"} -> "dir"
    [] n = "/d" -> "bin"
    [] OTHER -> "text"
\* a text of one line of 301 characters and 402 lines of one character
LongText ==
  [i \in 1..(PREVIEW_MAX_CHARS_PER_LINE + 1) |-> 120] \o <<NL>>
    \o [i \in 1..(2 * (PREVIEW_MAX_LINES + 2)) |-> IF i % 2 = 1 THEN 121 ELSE NL]
\* the characters of a text file
Content(n) ==
  CASE n = "/c" -> <<120, 10, 121, 10, 10, 122, 10>>
    [] n \in {"/a/t", "/t"} -> <<113>>
    [] n = "/e" -> <<49, 10, 50, 10, 51, 10, 52, 10, 53, 10, 54, 10, 55>>
    [] n = "/g" -> LongText
    [] OTHER -> <<>>
Dirs == {n \in Nodes : KindOf(n) = "dir"}
RECURSIVE Under(_, _)
\* n is d or lies below d
Under(n, d) == n = d \/ (n # "/" /\ Under(ParentOf(n), d))

is_dir(n, f) == n \in f /\ KindOf(n) = "dir"
is_file(n, f) == n \in f /\ KindOf(n) # "dir"
is_text_file(n, f) == n \in f /\ KindOf(n) = "text"

\* the sort key (not p.is_dir(), p.name.lower())
KeyLess(x, y, f) ==
  \/ is_dir(x, f) /\ ~is_dir(y, f)
  \/ /\ is_dir(x, f) = is_dir(y, f)
     /\ StrLess(LowerStr(NameOf(x)), LowerStr(NameOf(y)))
RECURSIVE SortByKey(_, _)
SortByKey(S, f) ==
  IF S = {} THEN <<>>
  ELSE LET m == CHOOSE x \in S : \A y \in S \ {x} : KeyLess(x, y, f)
       IN <<m>> \o SortByKey(S \ {m}, f)
\* sorted(list(cwd.iterdir()), key=...), [] when iterdir raises
Listing(c, f) ==
  IF ~is_dir(c, f) THEN <<>>
  ELSE SortByKey({n \in f : n # "/" /\ ParentOf(n) = c}, f)
Names(es) == [i \in 1..Len(es) |-> NameOf(es[i])]

(* ------------------------------------------------------------------ *)
(* State                                                               *)
(* ------------------------------------------------------------------ *)
VARIABLES
  fs,                 \* the paths that exist on disk
  mtime,              \* st_mtime of every path
  fs_changes,         \* how many outside changes have happened
  height,             \* stdscr.getmaxyx()[0]
  running,            \* the event loop of run() has not left its while
  cwd, history, entries, selected, top_index,
  mode, input_buffer, status, last_output, show_last_output, output_scroll,
  preview_scroll, pending_key, pending_action, clipboard_path, clipboard_action,
  preview_selected_line, selection_mode, selection_start, selection_end,
  entries_mtimes, search_mode, search_results, search_selected, fuzzy_type,
  watch,              \* the events an observer of this run tells apart
  lastEvent,          \* the branch of the loop that ran last, if watched
  lastKey,            \* the key that branch was given, where the branch is
                      \* one of several keys' and watched
  entered_from,       \* <<"in", D, i, listing>> after entering a directory from
                      \* D with the cursor at i, <<"back", ...>> after leaving it
                      \* again at once
  deleted,            \* the path this step handed to safe_delete_path
  clip_text,          \* the text this step handed to copy_to_clipboard_verbose
  arg_name, arg_query, \* the arguments of one call of fuzzy_score
  ret_score,          \* what that call returned, None before it returns
  arg_files,          \* the relative paths one call of search_files walks
  ret_files,          \* what that call returned, None before it returns
  arg_rel, arg_is_dir, arg_patterns, \* the arguments of one call of
                      \* should_skip: rel.name, is_dir and gitignore_patterns
  ret_skip            \* what that call returned, None before it returns

fsVars == <<fs, mtime, fs_changes>>
dirVars == <<cwd, history, entries, selected, top_index, entries_mtimes>>
promptVars == <<mode, input_buffer>>
outputVars == <<last_output, show_last_output, output_scroll>>
previewVars == <<preview_scroll, preview_selected_line>>
selectionVars == <<selection_mode, selection_start, selection_end>>
pendingVars == <<pending_key, pending_action>>
clipVars == <<clipboard_path, clipboard_action>>
searchVars == <<search_mode, search_results, search_selected, fuzzy_type>>
skipVars == <<arg_rel, arg_is_dir, arg_patterns, ret_skip>>
callVars == <<arg_name, arg_query, ret_score, arg_files, ret_files, skipVars>>
vars == <<fsVars, height, running, dirVars, promptVars, status, outputVars,
          previewVars, selectionVars, pendingVars, clipVars, searchVars,
          watch, lastEvent, lastKey, entered_from, deleted, clip_text, callVars>>

left_h == height - 2
\* an index that always yields the first element
Entry_first(es, i) == es[1]
\* Python's seq[i] with a negative index counting from the end
Entry(es, i) == es[IF i >= 0 THEN i + 1 ELSE Len(es) + i + 1]
Range(seq) == {seq[i] : i \in 1..Len(seq)}

(* ------------------------------------------------------------------ *)
(* TState                                                              *)
(* ------------------------------------------------------------------ *)
\* a save_position that forgets the cursor and keeps only the viewport top
save_position_top_only(hist, c, sel, top) == [hist EXCEPT ![c] = <<0, top>>]

\* save_position: history[str(cwd)] = (selected, top_index)
save_position(hist, c, sel, top) == [hist EXCEPT ![c] = <<sel, top>>]

\* restore_position: the (selected, top_index) it leaves
restore_position(es, sel, top, hist, c) ==
  IF hist[c] # None
  THEN LET s == hist[c][1]
           t == hist[c][2]
       IN [selected |-> IF s >= Len(es) THEN Max(0, Len(es) - 1) ELSE s,
           top_index |-> IF t >= Len(es) THEN Max(0, Len(es) - 1) ELSE t]
  ELSE [selected |-> sel, top_index |-> top]

\* the cursor reload() leaves, after restore_position and its own clamp
reload_cursor(es, sel, top, hist, c) ==
  LET r == restore_position(es, sel, top, hist, c)
  IN [selected |-> IF r.selected >= Len(es) THEN Max(0, Len(es) - 1) ELSE r.selected,
      top_index |-> r.top_index]

\* a clear_selection that leaves the two bounds as they are
clear_selection_keeps_bounds ==
  /\ selection_mode' = FALSE
  /\ UNCHANGED <<selection_start, selection_end>>

\* clear_selection
clear_selection ==
  /\ selection_mode' = FALSE
  /\ selection_start' = None
  /\ selection_end' = None

\* reload() of directory c on disk f, with hist the history in force
reload(c, f, mt, hist) ==
  LET es == Listing(c, f)
      r == reload_cursor(es, selected, top_index, hist, c)
  IN /\ entries' = es
     /\ selected' = r.selected
     /\ top_index' = r.top_index
     /\ preview_scroll' = 0
     /\ preview_selected_line' = None
     /\ clear_selection
     /\ entries_mtimes' = [n \in Range(es) |-> mt[n]]

\* a get_selected_range that returns anchor and moving line unordered
get_selected_range_unordered(s, e) ==
  IF s = None \/ e = None THEN <<None, None>> ELSE <<s, e>>

\* get_selected_range
get_selected_range(s, e) ==
  IF s = None \/ e = None THEN <<None, None>>
  ELSE <<Some(Min(s[1], e[1])), Some(Max(s[1], e[1]))>>

\* the state TState(cwd) and the first st.reload() leave, on disk f
InitProgram(c, f, h, w) ==
  /\ fs = f
  /\ watch = w
  /\ mtime = [n \in Nodes |-> 0]
  /\ fs_changes = 0
  /\ height = h
  /\ running = TRUE
  /\ cwd = c
  /\ history = [d \in Dirs |-> None]
  /\ entries = Listing(c, f)
  /\ selected = 0
  /\ top_index = 0
  /\ mode = "browser"
  /\ input_buffer = <<>>
  /\ status = "Ready"
  /\ last_output = None
  /\ show_last_output = FALSE
  /\ output_scroll = 0
  /\ preview_scroll = 0
  /\ pending_key = None
  /\ pending_action = None
  /\ clipboard_path = None
  /\ clipboard_action = None
  /\ preview_selected_line = None
  /\ selection_mode = FALSE
  /\ selection_start = None
  /\ selection_end = None
  /\ entries_mtimes = [n \in Range(Listing(c, f)) |-> 0]
  /\ search_mode = None
  /\ search_results = <<>>
  /\ search_selected = 0
  /\ fuzzy_type = None
  /\ lastEvent = "-"
  /\ lastKey = "-"
  /\ entered_from = None
  /\ deleted = None
  /\ clip_text = None
\* no call of should_skip under way
NoSkipCall ==
  /\ arg_rel = <<>>
  /\ arg_is_dir = FALSE
  /\ arg_patterns = <<>>
  /\ ret_skip = None
\* ... with no call of fuzzy_score under way
InitState(c, f, h, w) ==
  /\ InitProgram(c, f, h, w)
  /\ NoSkipCall
  /\ arg_name = <<>>
  /\ arg_query = <<>>
  /\ ret_score = None
  /\ arg_files = {}
  /\ ret_files = None

(* ------------------------------------------------------------------ *)
(* handle_browser_key: which branch a key takes                        *)
(* ------------------------------------------------------------------ *)
Keys == {"h", "j", "k", "l", "UP", "DOWN", "LEFT", "RIGHT", "ENTER", "ESC",
         "y", "Y", "n", "N", "d", "m", "f", "v", "V", ":", "p", "o",
         "NPAGE", "PPAGE", "^D", "^U", "P", "S", "w", "q", "TAB", "x"}
\* a remapping that also takes x for y
Norm_x_is_y(key) ==
  CASE key = "h" -> "LEFT"
    [] key = "j" -> "DOWN"
    [] key = "k" -> "UP"
    [] key = "l" -> "RIGHT"
    [] key = "x" -> "y"
    [] OTHER -> key

\* the h/j/k/l remapping at the head of handle_browser_key
Norm(key) ==
  CASE key = "h" -> "LEFT"
    [] key = "j" -> "DOWN"
    [] key = "k" -> "UP"
    [] key = "l" -> "RIGHT"
    [] OTHER -> key

CursorOnTextFile ==
  /\ entries # <<>>
  /\ is_file(Entry(entries, selected), fs)
  /\ is_text_file(Entry(entries, selected), fs)

\* the branch of handle_browser_key that key k (already remapped) runs
Branch(k) ==
  IF pending_action # None
  THEN (IF k \in {"y", "Y"} THEN "confirm_yes"
        ELSE IF k \in {"n", "N", "ESC"} THEN "confirm_no"
        ELSE "confirm_other")
  ELSE IF pending_key = Some("d") /\ k = "d" THEN "dd"
  ELSE IF pending_key = Some("y") /\ k = "y" THEN "yy"
  ELSE IF pending_key = Some("m") /\ k = "m" THEN "mm"
  ELSE IF pending_key = Some("f") /\ k = "f" THEN "ff"
  ELSE IF pending_key = Some("f") /\ k = "l" THEN "fl"
  ELSE IF k = "ESC" /\ selection_mode THEN "esc_selection"
  ELSE IF k = "ESC" /\ search_mode # None THEN "esc_search"
  ELSE IF k \in {"v", "V"} THEN "visual"
  ELSE IF selection_mode /\ k \in {"UP", "DOWN"} /\ CursorOnTextFile
       THEN "selection_move"
  ELSE IF search_mode # None
  THEN (IF k = "UP" THEN "search_up"
        ELSE IF k = "DOWN" THEN "search_down"
        ELSE IF k \in {"ENTER", "RIGHT"} THEN "search_commit"
        ELSE "search_other")
  ELSE CASE k = "UP" -> "up"
         [] k = "DOWN" -> "down"
         [] k = "LEFT" -> "left"
         [] k \in {"RIGHT", "ENTER"} -> "right"
         [] k \in {":", "p"} -> "prompt"
         [] k = "o" -> "toggle_output"
         [] k = "NPAGE" -> "npage"
         [] k = "PPAGE" -> "ppage"
         [] k = "^D" -> "ctrl_d"
         [] k = "^U" -> "ctrl_u"
         [] k \in {"d", "y", "m", "f"} -> "pend"
         [] k = "P" -> "paste"
         [] k \in {"S", "w"} -> "powershell"
         [] k = "q" -> "quit"
         [] OTHER -> "other"

\* key arrives in browser mode and takes branch b
KeyTakes(key, b) ==
  /\ running
  /\ mode = "browser"
  /\ Branch(Norm(key)) = b
\* some key arrives in browser mode and takes branch b
BrowserKey(b) == \E key \in Keys : KeyTakes(key, b)

\* what every step records about itself
GhostKey(ev, key) ==
  /\ lastEvent' = IF ev \in watch THEN ev ELSE "-"
  /\ lastKey' = IF ev \in watch THEN key ELSE "-"
  /\ UNCHANGED <<height, watch, callVars>>
Ghost(ev) == GhostKey(ev, "-")
NoCalls ==
  /\ deleted' = None
  /\ clip_text' = None
  /\ entered_from' = None

\* the paths safe_delete_path(target) removes when it succeeds
Removed(target, f) == {n \in f : Under(n, target)}

(* ---- a confirmation is pending (lines 681-687) ---- *)
ConfirmYes ==
  \E ok \in BOOLEAN, key \in Keys :
    /\ KeyTakes(key, "confirm_yes")
    /\ LET typ == pending_action[1]
           target == pending_action[2]
       IN /\ pending_action' = None
          /\ IF typ = "delete"
             THEN /\ (ok => target \in fs)
                  /\ fs' = IF ok THEN fs \ Removed(target, fs) ELSE fs
                  /\ status' = IF ok THEN "deleted" ELSE "delete failed"
                  /\ reload(cwd, fs', mtime, history)
                  /\ deleted' = Some(target)
             ELSE /\ ok
                  /\ deleted' = None
                  /\ UNCHANGED <<fs, status, entries, selected, top_index,
                                 entries_mtimes, previewVars, selectionVars>>
    /\ clip_text' = None /\ entered_from' = None
    /\ GhostKey("confirm_yes", key)
    /\ UNCHANGED <<mtime, fs_changes, running, cwd, history, promptVars,
                   outputVars, pending_key, clipVars, searchVars>>

ConfirmNo ==
    /\ BrowserKey("confirm_no")
    /\ pending_action' = None
    /\ status' = "cancelled"
    /\ NoCalls /\ Ghost("confirm_no")
    /\ UNCHANGED <<fsVars, running, dirVars, promptVars, outputVars, previewVars,
                   selectionVars, pending_key, clipVars, searchVars>>

ConfirmOther ==
  \E key \in {"DOWN", "d", "q", "x"} :
    /\ KeyTakes(key, "confirm_other")
    /\ NoCalls /\ GhostKey("confirm_other", key)
    /\ UNCHANGED <<fsVars, running, dirVars, promptVars, status, outputVars,
                   previewVars, selectionVars, pendingVars, clipVars, searchVars>>

(* ---- the second key of a two-key sequence (lines 688-704) ---- *)
PendingDelete ==
    /\ BrowserKey("dd")
    /\ pending_key' = None
    /\ IF entries = <<>>
       THEN /\ status' = "nothing selected"
            /\ pending_action' = pending_action
       ELSE /\ pending_action' = <<"delete", Entry(entries, selected)>>
            /\ status' = "Confirm delete"
    /\ NoCalls /\ GhostKey("dd", "d")
    /\ UNCHANGED <<fsVars, running, dirVars, promptVars, outputVars, previewVars,
                   selectionVars, clipVars, searchVars>>

PendingYank ==
  \E b \in {"yy", "mm"} :
    /\ BrowserKey(b)
    /\ pending_key' = None
    /\ IF entries = <<>>
       THEN /\ status' = "nothing selected"
            /\ UNCHANGED clipVars
       ELSE /\ clipboard_path' = Some(Entry(entries, selected))
            /\ clipboard_action' = Some(IF b = "yy" THEN "copy" ELSE "move")
            /\ status' = IF b = "yy" THEN "yanked" ELSE "marked for move"
    /\ NoCalls /\ Ghost(b)
    /\ UNCHANGED <<fsVars, running, dirVars, promptVars, outputVars, previewVars,
                   selectionVars, pending_action, searchVars>>

PendingFuzzyFiles ==
    /\ BrowserKey("ff")
    /\ pending_key' = None
    /\ mode' = "fuzzy_input"
    /\ fuzzy_type' = Some("ff")
    /\ input_buffer' = <<>>
    /\ status' = "ff: type to fuzzy-search files"
    /\ NoCalls /\ Ghost("ff")
    /\ UNCHANGED <<fsVars, running, dirVars, outputVars, previewVars, selectionVars,
                   pending_action, clipVars, search_mode, search_results,
                   search_selected>>

\* lines 702-704; no key reaches it, as "l" has been remapped to KEY_RIGHT
PendingFuzzyLines ==
    /\ BrowserKey("fl")
    /\ pending_key' = None
    /\ mode' = "fuzzy_input"
    /\ fuzzy_type' = Some("fl")
    /\ input_buffer' = <<>>
    /\ status' = "fl: type to fuzzy-search lines"
    /\ NoCalls /\ Ghost("fl")
    /\ UNCHANGED <<fsVars, running, dirVars, outputVars, previewVars, selectionVars,
                   pending_action, clipVars, search_mode, search_results,
                   search_selected>>

(* ---- Esc (lines 705-719) ---- *)
EscSelection ==
    /\ BrowserKey("esc_selection")
    /\ pending_key' = None
    /\ clear_selection
    /\ status' = "Selection cancelled"
    /\ NoCalls /\ Ghost("esc_selection")
    /\ UNCHANGED <<fsVars, running, dirVars, promptVars, outputVars, previewVars,
                   pending_action, clipVars, searchVars>>

EscSearch ==
    /\ BrowserKey("esc_search")
    /\ pending_key' = None
    /\ search_mode' = None
    /\ search_results' = <<>>
    /\ search_selected' = 0
    /\ status' = "search cancelled"
    /\ NoCalls /\ Ghost("esc_search")
    /\ UNCHANGED <<fsVars, running, dirVars, promptVars, outputVars, previewVars,
                   selectionVars, pending_action, clipVars, fuzzy_type>>

(* ---- v / V (lines 720-741) ---- *)
\* safe_read_text: fh.read(max_chars), max_chars the product of the two caps
safe_read_text(n) ==
  SubSeq(Content(n), 1,
         Min(Len(Content(n)), PREVIEW_MAX_LINES * PREVIEW_MAX_CHARS_PER_LINE))

\* copy_selected_text_to_clipboard: the text handed to the clipboard,
\* None when it returns before the clipboard call
copy_selected_text_to_clipboard(es, sel, f, s, e) ==
  IF es = <<>> \/ ~is_file(Entry(es, sel), f) THEN None
  ELSE LET r == get_selected_range(s, e)
       IN IF r[1] = None \/ r[2] = None THEN None
          ELSE IF ~is_text_file(Entry(es, sel), f) THEN None
          ELSE LET lines == splitlines(safe_read_text(Entry(es, sel)))
               IN Some(join_nl(Slice(lines, r[1][1] - 1, r[2][1])))

Visual ==
    /\ BrowserKey("visual")
    /\ pending_key' = None
    /\ IF ~CursorOnTextFile
       THEN /\ status' = "Visual mode only for text files"
            /\ clip_text' = None
            /\ UNCHANGED <<selectionVars, preview_selected_line>>
       ELSE IF ~selection_mode
       THEN LET current_line == IF preview_selected_line # None
                                THEN preview_selected_line[1]
                                ELSE preview_scroll + 1
            IN /\ selection_mode' = TRUE
               /\ selection_start' = Some(current_line)
               /\ selection_end' = Some(current_line)
               /\ preview_selected_line' = Some(current_line)
               /\ status' = "VISUAL MODE"
               /\ clip_text' = None
       ELSE /\ clip_text' = copy_selected_text_to_clipboard(
                              entries, selected, fs, selection_start, selection_end)
            /\ clear_selection
            /\ status' = "Copied to clipboard"
            /\ UNCHANGED preview_selected_line
    /\ deleted' = None /\ entered_from' = None
    /\ Ghost("visual")
    /\ UNCHANGED <<fsVars, running, dirVars, promptVars, outputVars, preview_scroll,
                   pending_action, clipVars, searchVars>>

(* ---- up / down while selecting (lines 743-758) ---- *)
\* the moving line after one key
selection_step(cur, k, total_lines) ==
  IF k = "UP" THEN (IF cur > 1 THEN cur - 1 ELSE cur)
  ELSE (IF cur < total_lines THEN cur + 1 ELSE cur)
\* a preview scroll that only follows the moving line upwards
selection_scroll_up_only(cur, scroll, h) ==
  IF cur <= scroll THEN Max(0, cur - 1) ELSE scroll

\* the preview scroll that follows the moving line
selection_scroll(cur, scroll, h) ==
  IF cur <= scroll THEN Max(0, cur - 1)
  ELSE IF cur > scroll + (h - 3) THEN cur - (h - 3)
  ELSE scroll

SelectionMove ==
  \E key \in {"UP", "DOWN"} :
    /\ KeyTakes(key, "selection_move")
    /\ pending_key' = None
    /\ LET n == Len(splitlines(safe_read_text(Entry(entries, selected))))
           total_lines == IF n = 0 THEN 1 ELSE n
           cur0 == IF selection_end # None THEN selection_end[1]
                   ELSE IF selection_start # None THEN selection_start[1] ELSE 1
           cur == selection_step(cur0, Norm(key), total_lines)
       IN /\ selection_end' = Some(cur)
          /\ preview_selected_line' = Some(cur)
          /\ preview_scroll' = selection_scroll(cur, preview_scroll, height)
    /\ NoCalls /\ Ghost("selection_move")
    /\ UNCHANGED <<fsVars, running, dirVars, promptVars, status, outputVars,
                   selection_mode, selection_start, pending_action, clipVars,
                   searchVars>>

(* ---- up / down in the listing (lines 813-824) ---- *)
\* top_index after KEY_UP has moved the cursor to sel
move_up_top(sel, top) == IF sel < top + 5 THEN Max(0, sel - 5) ELSE top
\* top_index after KEY_DOWN has moved the cursor to sel
move_down_top(sel, top, h) ==
  IF sel >= top + (h - 2) - 5 THEN sel - (h - 2) + 5 ELSE top

MoveUp ==
    /\ BrowserKey("up")
    /\ pending_key' = None
    /\ selected' = Max(0, selected - 1)
    /\ top_index' = move_up_top(selected', top_index)
    /\ preview_scroll' = 0
    /\ preview_selected_line' = None
    /\ clear_selection
    /\ NoCalls /\ Ghost("up")
    /\ UNCHANGED <<fsVars, running, cwd, history, entries, entries_mtimes,
                   promptVars, status, outputVars, pending_action, clipVars,
                   searchVars>>

MoveDown ==
    /\ BrowserKey("down")
    /\ pending_key' = None
    /\ selected' = Min(Len(entries) - 1, selected + 1)
    /\ top_index' = move_down_top(selected', top_index, height)
    /\ preview_scroll' = 0
    /\ preview_selected_line' = None
    /\ clear_selection
    /\ NoCalls /\ Ghost("down")
    /\ UNCHANGED <<fsVars, running, cwd, history, entries, entries_mtimes,
                   promptVars, status, outputVars, pending_action, clipVars,
                   searchVars>>

(* ---- leave / enter a directory (lines 825-839) ---- *)
GoParent ==
    /\ BrowserKey("left")
    /\ pending_key' = None
    /\ history' = save_position(history, cwd, selected, top_index)
    /\ LET parent == ParentOf(cwd)
       IN IF parent # cwd
          THEN /\ cwd' = parent
               /\ reload(parent, fs, mtime, history')
               /\ status' = "cd"
               /\ show_last_output' = FALSE
          ELSE UNCHANGED <<cwd, entries, selected, top_index, entries_mtimes,
                           previewVars, selectionVars, status, show_last_output>>
    /\ entered_from' = IF entered_from # None /\ entered_from[1] = "in"
                       THEN [entered_from EXCEPT ![1] = "back"] ELSE None
    /\ deleted' = None /\ clip_text' = None
    /\ Ghost("left")
    /\ UNCHANGED <<fsVars, running, promptVars, last_output, output_scroll,
                   pending_action, clipVars, searchVars>>

\* Enter / l on a directory
EnterDir ==
    /\ BrowserKey("right")
    /\ entries # <<>>
    /\ is_dir(Entry(entries, selected), fs)
    /\ pending_key' = None
    /\ history' = save_position(history, cwd, selected, top_index)
    /\ cwd' = Entry(entries, selected)
    /\ reload(cwd', fs, mtime, history')
    /\ status' = "cd"
    /\ show_last_output' = FALSE
    /\ entered_from' = <<"in", cwd, selected, entries>>
    /\ deleted' = None /\ clip_text' = None
    /\ Ghost("enter_dir")
    /\ UNCHANGED <<fsVars, running, promptVars, last_output, output_scroll,
                   pending_action, clipVars, searchVars>>

\* Enter / l on something else: the editor is run, or nothing is listed
OpenFile ==
  \E opened \in BOOLEAN :
    /\ BrowserKey("right")
    /\ pending_key' = None
    /\ IF entries = <<>>
       THEN /\ opened
            /\ UNCHANGED <<status, show_last_output>>
       ELSE /\ ~is_dir(Entry(entries, selected), fs)
            /\ status' = IF opened THEN "Ready" ELSE "No editor found"
            /\ show_last_output' = FALSE
    /\ NoCalls /\ Ghost("open_file")
    /\ UNCHANGED <<fsVars, running, dirVars, promptVars, last_output, output_scroll,
                   previewVars, selectionVars, pending_action, clipVars, searchVars>>

(* ---- the rest of the key chain (lines 840-874) ---- *)
OpenPrompt ==
    /\ BrowserKey("prompt")
    /\ pending_key' = None
    /\ mode' = "prompt"
    /\ input_buffer' = <<>>
    /\ NoCalls /\ Ghost("prompt")
    /\ UNCHANGED <<fsVars, running, dirVars, status, outputVars, previewVars,
                   selectionVars, pending_action, clipVars, searchVars>>

ToggleOutput ==
    /\ BrowserKey("toggle_output")
    /\ pending_key' = None
    /\ show_last_output' = ~show_last_output
    /\ NoCalls /\ Ghost("toggle_output")
    /\ UNCHANGED <<fsVars, running, dirVars, promptVars, status, last_output,
                   output_scroll, previewVars, selectionVars, pending_action,
                   clipVars, searchVars>>

\* top_index after KEY_NPAGE
page_down_top(top, n, h) == Min(n - 1, top + (h - 2) \div 2)
\* top_index after KEY_PPAGE
page_up_top(top, h) == Max(0, top - (h - 2) \div 2)

\* draw_browser indexes entries[top + idx] for every row with top + idx <
\* len(entries); an index below -len(entries) raises and run() ends
draw_browser_raises(es, top, h) == \E idx \in 0..(h - 1) : top + idx < -Len(es)

PageDown ==
    /\ BrowserKey("npage")
    /\ pending_key' = None
    /\ top_index' = page_down_top(top_index, Len(entries), height)
    /\ running' = ~draw_browser_raises(entries, top_index', left_h)
    /\ NoCalls /\ Ghost("npage")
    /\ UNCHANGED <<fsVars, cwd, history, entries, selected, entries_mtimes,
                   promptVars, status, outputVars, previewVars, selectionVars,
                   pending_action, clipVars, searchVars>>

PageUp ==
    /\ BrowserKey("ppage")
    /\ pending_key' = None
    /\ top_index' = page_up_top(top_index, height)
    /\ NoCalls /\ Ghost("ppage")
    /\ UNCHANGED <<fsVars, running, cwd, history, entries, selected, entries_mtimes,
                   promptVars, status, outputVars, previewVars, selectionVars,
                   pending_action, clipVars, searchVars>>

OutputShown == show_last_output /\ last_output # None /\ last_output # Some(<<>>)
OutputLines == Len(splitlines(last_output[1]))

\* Ctrl-D and Ctrl-U: half a page in the output pane or the preview
HalfPage ==
  \E b \in {"ctrl_d", "ctrl_u"} :
    /\ BrowserKey(b)
    /\ pending_key' = None
    /\ LET half == (height - 2) \div 2
       IN IF OutputShown
          THEN /\ output_scroll' =
                    IF b = "ctrl_d"
                    THEN Min(output_scroll + half, Max(0, OutputLines - (height - 2)))
                    ELSE Max(0, output_scroll - half)
               /\ UNCHANGED preview_scroll
          ELSE IF CursorOnTextFile
          THEN /\ preview_scroll' =
                    IF b = "ctrl_d"
                    THEN Min(preview_scroll + half,
                             Max(0, Len(splitlines(safe_read_text(Entry(entries, selected))))
                                    - (height - 2)))
                    ELSE Max(0, preview_scroll - half)
               /\ UNCHANGED output_scroll
          ELSE UNCHANGED <<output_scroll, preview_scroll>>
    /\ NoCalls /\ Ghost(b)
    /\ UNCHANGED <<fsVars, running, dirVars, promptVars, status, last_output,
                   show_last_output, preview_selected_line, selectionVars,
                   pending_action, clipVars, searchVars>>

\* d, y, m, f: the first key of a two-key sequence
PendKey(ks) ==
  \E key \in ks \cap {"d", "y", "m", "f"} :
    /\ KeyTakes(key, "pend")
    /\ pending_key' = Some(key)
    /\ NoCalls /\ GhostKey("pend", key)
    /\ UNCHANGED <<fsVars, running, dirVars, promptVars, status, outputVars,
                   previewVars, selectionVars, pending_action, clipVars, searchVars>>

\* where perform_paste_action would put src in directory c, inside the universe
PasteDest(src, c) ==
  {n \in Nodes : n # "/" /\ ParentOf(n) = c /\ NameOf(n) = NameOf(src)
                 /\ KindOf(n) = KindOf(src)}

\* P: perform_paste_action, then reload
Paste ==
  \E ok \in BOOLEAN :
    /\ BrowserKey("paste")
    /\ pending_key' = None
    /\ IF clipboard_path = None \/ clipboard_action = None
       THEN /\ ~ok /\ status' = "paste failed: nothing to paste"
            /\ UNCHANGED <<fs, clipVars>>
       ELSE IF clipboard_path[1] \notin fs
       THEN /\ ~ok /\ status' = "paste failed: source missing"
            /\ UNCHANGED <<fs, clipVars>>
       ELSE IF ~ok
       THEN /\ status' = "paste failed"
            /\ UNCHANGED <<fs, clipVars>>
       ELSE \E dst \in PasteDest(clipboard_path[1], cwd) :
              /\ dst \notin fs
              /\ KindOf(dst) # "dir"
              /\ fs' = IF clipboard_action = Some("copy")
                       THEN fs \cup {dst}
                       ELSE (fs \ {clipboard_path[1]}) \cup {dst}
              /\ IF clipboard_action = Some("copy")
                 THEN UNCHANGED clipVars
                 ELSE clipboard_path' = None /\ clipboard_action' = None
              /\ status' = "pasted"
    /\ reload(cwd, fs', mtime, history)
    /\ NoCalls /\ Ghost("paste")
    /\ UNCHANGED <<mtime, fs_changes, running, cwd, history, promptVars, outputVars,
                   pending_action, searchVars>>

Powershell ==
  \E ok \in BOOLEAN :
    /\ BrowserKey("powershell")
    /\ pending_key' = None
    /\ status' = IF ok THEN "powershell" ELSE "powershell failed"
    /\ NoCalls /\ Ghost("powershell")
    /\ UNCHANGED <<fsVars, running, dirVars, promptVars, outputVars, previewVars,
                   selectionVars, pending_action, clipVars, searchVars>>

Quit ==
    /\ BrowserKey("quit")
    /\ pending_key' = None
    /\ running' = FALSE
    /\ NoCalls /\ Ghost("quit")
    /\ UNCHANGED <<fsVars, dirVars, promptVars, status, outputVars, previewVars,
                   selectionVars, pending_action, clipVars, searchVars>>

\* a key no branch names: only the pending key is forgotten
OtherKey ==
    /\ BrowserKey("other")
    /\ pending_key' = None
    /\ NoCalls /\ Ghost("other")
    /\ UNCHANGED <<fsVars, running, dirVars, promptVars, status, outputVars,
                   previewVars, selectionVars, pending_action, clipVars, searchVars>>

(* ------------------------------------------------------------------ *)
(* Fuzzy search (lines 633-659)                                        *)
(* ------------------------------------------------------------------ *)
RECURSIVE fuzzy_scan(_, _, _, _, _, _)
\* the for loop of fuzzy_score from 0-based position i on
fuzzy_scan(name, query, i, qi, first, last) ==
  IF i >= Len(name) THEN [qi |-> qi, first |-> first, last |-> last]
  ELSE IF qi < Len(query) /\ name[i + 1] = query[qi + 1]
       THEN fuzzy_scan(name, query, i + 1, qi + 1,
                       IF first = None THEN Some(i) ELSE first, Some(i))
       ELSE fuzzy_scan(name, query, i + 1, qi, first, last)

\* a fuzzy_score that compares the strings as given, without lower()
fuzzy_score_cased(name, query) ==
  IF query = <<>> THEN <<0, 1>>
  ELSE LET r == fuzzy_scan(name, query, 0, 0, None, None)
       IN IF r.qi # Len(query) THEN <<0, 1>>
          ELSE LET span == IF r.first # None
                           THEN r.last[1] - r.first[1] + 1
                           ELSE Len(name)
               IN <<Len(query), span>>

\* a fuzzy_score whose span is always the length of the candidate
fuzzy_score_whole_name(name0, query0) ==
  LET name == LowerStr(name0)
      query == LowerStr(query0)
  IN IF query = <<>> THEN <<0, 1>>
     ELSE LET r == fuzzy_scan(name, query, 0, 0, None, None)
          IN IF r.qi # Len(query) THEN <<0, 1>>
             ELSE <<Len(query), Len(name)>>

\* fuzzy_score as the fraction <<numerator, denominator>>; 0.0 is <<0, 1>>
fuzzy_score(name0, query0) ==
  LET name == LowerStr(name0)
      query == LowerStr(query0)
  IN IF query = <<>> THEN <<0, 1>>
     ELSE LET r == fuzzy_scan(name, query, 0, 0, None, None)
          IN IF r.qi # Len(query) THEN <<0, 1>>
             ELSE LET span == IF r.first # None
                              THEN r.last[1] - r.first[1] + 1
                              ELSE Len(name)
                  IN <<Len(query), span>>
ScorePositive(sc) == sc[1] > 0
ScoreGreater(a, b) == a[1] * b[2] > b[1] * a[2]

\* one call fuzzy_score(arg_name, arg_query) returns
CallFuzzy ==
  /\ ret_score = None
  /\ ret_score' = Some(fuzzy_score(arg_name, arg_query))
  /\ UNCHANGED <<fsVars, height, running, dirVars, promptVars, status, outputVars,
                 previewVars, selectionVars, pendingVars, clipVars, searchVars,
                 watch, lastEvent, lastKey, entered_from, deleted, clip_text,
                 arg_name, arg_query, arg_files, ret_files, skipVars>>

(* ------------------------------------------------------------------ *)
(* should_skip (lines 100-110) and the built-in ignore lists           *)
(* ------------------------------------------------------------------ *)
STAR == 42
QMARK == 63
BANG == 33
DEFAULT_IGNORE_DIRS ==
  { <<95, 95, 112, 121, 99, 97, 99, 104, 101, 95, 95>>,  \* __pycache__
    <<110, 111, 100, 101, 95, 109, 111, 100, 117, 108, 101, 115>>,  \* node_modules
    <<46, 103, 105, 116>>,  \* .git
    <<46, 104, 103>>,  \* .hg
    <<46, 118, 101, 110, 118>>,  \* .venv
    <<118, 101, 110, 118>>,  \* venv
    <<101, 110, 118>>,  \* env
    <<46, 105, 100, 101, 97>>,  \* .idea
    <<46, 112, 121, 116, 101, 115, 116, 95, 99, 97, 99, 104, 101>>,  \* .pytest_cache
    <<100, 105, 115, 116>>,  \* dist
    <<98, 117, 105, 108, 100>>}  \* build
DEFAULT_IGNORE_PATTERNS ==
  { <<42, 46, 112, 121, 99>>,  \* *.pyc
    <<42, 46, 112, 121, 111>>,  \* *.pyo
    <<42, 46, 112, 121, 100>>,  \* *.pyd
    <<42, 46, 115, 111>>,  \* *.so
    <<42, 46, 100, 108, 108>>,  \* *.dll
    <<42, 46, 101, 120, 101>>,  \* *.exe
    <<42, 46, 99, 108, 97, 115, 115>>,  \* *.class
    <<42, 46, 106, 97, 114>>,  \* *.jar
    <<42, 46, 108, 111, 99, 107>>,  \* *.lock
    <<42, 46, 108, 111, 103>>,  \* *.log
    <<42, 46, 100, 98>>,  \* *.db
    <<42, 46, 115, 113, 108, 105, 116, 101>>,  \* *.sqlite
    <<42, 46, 98, 97, 107>>,  \* *.bak
    <<42, 46, 116, 109, 112>>,  \* *.tmp
    <<42, 46, 68, 83, 95, 83, 116, 111, 114, 101>>}  \* *.DS_Store
DEFAULT_IGNORE_NAMES == {<<84, 104, 117, 109, 98, 115, 46, 100, 98>>}  \* Thumbs.db
RECURSIVE fnmatch(_, _)
\* fnmatch.fnmatch(name, pat) for a pattern of literals, "*" and "?", where
\* os.path.normcase leaves the case alone
fnmatch(name, pat) ==
  IF pat = <<>> THEN name = <<>>
  ELSE IF pat[1] = STAR
  THEN fnmatch(name, Tail(pat)) \/ (name # <<>> /\ fnmatch(Tail(name), pat))
  ELSE /\ name # <<>>
       /\ pat[1] = QMARK \/ pat[1] = name[1]
       /\ fnmatch(Tail(name), Tail(pat))
RECURSIVE first_match(_, _)
\* the loop over gitignore_patterns: the first pattern that matches decides
first_match(name, pats) ==
  IF pats = <<>> THEN FALSE
  ELSE LET pat == pats[1]
           neg == pat # <<>> /\ pat[1] = BANG
           pattern == IF neg THEN Tail(pat) ELSE pat
       IN IF fnmatch(name, pattern) THEN ~neg
          ELSE first_match(name, Tail(pats))
should_skip(name, isdir, gitignore_patterns) ==
  IF isdir /\ name \in DEFAULT_IGNORE_DIRS THEN TRUE
  ELSE IF name \in DEFAULT_IGNORE_NAMES THEN TRUE
  ELSE IF \E pat \in DEFAULT_IGNORE_PATTERNS : fnmatch(name, pat) THEN TRUE
  ELSE first_match(name, gitignore_patterns)

\* one call should_skip(rel, is_dir, gitignore_patterns) returns
CallShouldSkip ==
  /\ ret_skip = None
  /\ ret_skip' = Some(should_skip(arg_rel, arg_is_dir, arg_patterns))
  /\ UNCHANGED <<fsVars, height, running, dirVars, promptVars, status, outputVars,
                 previewVars, selectionVars, pendingVars, clipVars, searchVars,
                 watch, lastEvent, lastKey, entered_from, deleted, clip_text,
                 arg_name, arg_query, ret_score, arg_files, ret_files,
                 arg_rel, arg_is_dir, arg_patterns>>

RECURSIVE RelPath(_, _)
\* str(path.relative_to(root)) for a path below root
RelPath(root, n) ==
  IF ParentOf(n) = root THEN NameOf(n)
  ELSE RelPath(root, ParentOf(n)) \o <<SLASH>> \o NameOf(n)
\* the files walk_all_files(root) yields (no name of the universe is ignored)
walk_all_files(root, f) ==
  {n \in f : n # root /\ Under(n, root) /\ is_file(n, f)}
\* a sort key that breaks ties by the later string first
ResultBefore_ties_reversed(x, y) ==
  \/ ScoreGreater(x[1], y[1])
  \/ ~ScoreGreater(y[1], x[1]) /\ StrLess(y[2], x[2])

\* the sort key (-score, s) of search_files
ResultBefore(x, y) ==
  \/ ScoreGreater(x[1], y[1])
  \/ ~ScoreGreater(y[1], x[1]) /\ StrLess(x[2], y[2])
RECURSIVE SortResults(_)
SortResults(S) ==
  IF S = {} THEN <<>>
  ELSE LET m == CHOOSE x \in S : \A y \in S \ {x} : ResultBefore(x, y)
       IN <<m[2]>> \o SortResults(S \ {m})
\* the body of search_files on the relative paths rels that the walk yields
rank_files(rels, query) ==
  SortResults({<<fuzzy_score(r, query), r>> :
                 r \in {t \in rels : ScorePositive(fuzzy_score(t, query))}})
search_files(root, f, query) ==
  rank_files({RelPath(root, n) : n \in walk_all_files(root, f)}, query)

\* one call of search_files, over a tree whose files are arg_files, returns
CallSearchFiles ==
  /\ ret_files = None
  /\ ret_files' = Some(rank_files(arg_files, arg_query))
  /\ UNCHANGED <<fsVars, height, running, dirVars, promptVars, status, outputVars,
                 previewVars, selectionVars, pendingVars, clipVars, searchVars,
                 watch, lastEvent, lastKey, entered_from, deleted, clip_text,
                 arg_name, arg_query, ret_score, arg_files, skipVars>>

(* ---- keys while search results are shown (lines 759-812) ---- *)
SearchUp ==
    /\ BrowserKey("search_up")
    /\ pending_key' = None
    /\ search_selected' = Max(0, search_selected - 1)
    /\ output_scroll' = IF search_selected' < output_scroll
                        THEN search_selected' ELSE output_scroll
    /\ NoCalls /\ Ghost("search_up")
    /\ UNCHANGED <<fsVars, running, dirVars, promptVars, status, last_output,
                   show_last_output, previewVars, selectionVars, pending_action,
                   clipVars, search_mode, search_results, fuzzy_type>>

SearchDown ==
    /\ BrowserKey("search_down")
    /\ pending_key' = None
    /\ search_selected' = Min(Len(search_results) - 1, search_selected + 1)
    /\ output_scroll' = IF search_selected' >= output_scroll + (height - 2)
                        THEN search_selected' - (height - 3) ELSE output_scroll
    /\ NoCalls /\ Ghost("search_down")
    /\ UNCHANGED <<fsVars, running, dirVars, promptVars, status, last_output,
                   show_last_output, previewVars, selectionVars, pending_action,
                   clipVars, search_mode, search_results, fuzzy_type>>

\* the path cwd / result
ResultTarget(c, rel) == {n \in Nodes : n # c /\ Under(n, c) /\ RelPath(c, n) = rel}
\* the index the loop over st.entries selects, or the cursor reload left
Reselect(es, target, sel) ==
  LET hits == {i \in 1..Len(es) : es[i] = target}
  IN IF hits = {} THEN sel ELSE (CHOOSE i \in hits : \A j \in hits : i <= j) - 1

\* Enter / l on a file-search result that is an existing file
SearchCommit ==
  \E opened \in BOOLEAN :
    /\ BrowserKey("search_commit")
    /\ search_mode = Some("ff")
    /\ search_results # <<>>
    /\ \E target \in ResultTarget(cwd, Entry(search_results, search_selected)) :
         /\ is_file(target, fs)
         /\ history' = save_position(history, cwd, selected, top_index)
         /\ LET es == Listing(cwd, fs)
                r == reload_cursor(es, selected, top_index, history', cwd)
            IN /\ entries' = es
               /\ selected' = Reselect(es, target, r.selected)
               /\ top_index' = r.top_index
               /\ entries_mtimes' = [n \in Range(es) |-> mtime[n]]
    /\ preview_scroll' = 0
    /\ preview_selected_line' = None
    /\ clear_selection
    /\ pending_key' = None
    /\ status' = IF opened THEN "Ready" ELSE "No editor found"
    /\ search_mode' = None
    /\ search_results' = <<>>
    /\ NoCalls /\ Ghost("search_commit")
    /\ UNCHANGED <<fsVars, running, cwd, promptVars, outputVars, pending_action,
                   clipVars, search_selected, fuzzy_type>>

\* any other key while results are shown, or Enter with nothing to open
SearchOther ==
    /\ \/ BrowserKey("search_other")
       \/ /\ BrowserKey("search_commit")
          /\ IF search_results = <<>> THEN TRUE
             ELSE \A target \in ResultTarget(cwd, Entry(search_results, search_selected)) :
                    ~is_file(target, fs)
    /\ pending_key' = None
    /\ NoCalls /\ Ghost("search_other")
    /\ UNCHANGED <<fsVars, running, dirVars, promptVars, status, outputVars,
                   previewVars, selectionVars, pending_action, clipVars, searchVars>>

(* ------------------------------------------------------------------ *)
(* handle_prompt_key (lines 875-1022)                                  *)
(* ------------------------------------------------------------------ *)
SP == 32
RECURSIVE lstrip(_)
lstrip(t) == IF t # <<>> /\ t[1] = SP THEN lstrip(Tail(t)) ELSE t
RECURSIVE rstrip(_)
rstrip(t) == IF t # <<>> /\ t[Len(t)] = SP THEN rstrip(SubSeq(t, 1, Len(t) - 1)) ELSE t
\* str.strip() for blanks
strip(t) == rstrip(lstrip(t))
RECURSIVE split(_)
\* str.split(): the words between runs of blanks
split(t0) ==
  LET t == lstrip(t0)
  IN IF t = <<>> THEN <<>>
     ELSE LET Brk == {i \in 1..Len(t) : t[i] = SP}
              k == IF Brk = {} THEN Len(t) + 1
                   ELSE CHOOSE i \in Brk : \A j \in Brk : i <= j
          IN <<SubSeq(t, 1, k - 1)>> \o split(SubSeq(t, k, Len(t)))
startswith(t, pre) == Len(t) >= Len(pre) /\ SubSeq(t, 1, Len(pre)) = pre

\* the lines the user types; every prefix of one is a state of input_buffer
Line_ls == <<108, 115>>
Line_cd_a == <<99, 100, 32, 97>>
Line_cd_root == <<99, 100, 32, 47>>
Line_quit == <<113, 117, 105, 116>>
Word_cd == <<99, 100>>
Word_exit == <<101, 120, 105, 116>>
Word_mkdir == <<109, 107, 100, 105, 114>>
Word_touch == <<116, 111, 117, 99, 104>>
Word_cat == <<99, 97, 116>>
Line_cat_c == Word_cat \o <<SP, 99>>
Line_touch_f == Word_touch \o <<SP, 102>>
Line_mkdir_a == Word_mkdir \o <<SP, 97>>
IsPrefix(t, lines) == \E l \in lines : Len(t) <= Len(l) /\ SubSeq(l, 1, Len(t)) = t
Printable(lines) == UNION {Range(l) : l \in lines}

\* the branch of the command chain (lines 909-1011) that cmd takes
CmdKind(cmd) ==
  LET args == split(cmd)
  IN IF args = <<>> THEN "empty"
     ELSE IF startswith(cmd, Word_cd \o <<SP>>) THEN "cd"
     ELSE IF cmd = Line_ls THEN "ls"
     ELSE IF args[1] = Word_mkdir /\ Len(args) = 2 THEN "mkdir"
     ELSE IF args[1] = Word_touch /\ Len(args) = 2 THEN "touch"
     ELSE IF args[1] = Word_cat /\ Len(args) = 2 THEN "cat"
     ELSE IF cmd \in {Word_exit, Line_quit} THEN "quit"
     ELSE "unknown"

RECURSIVE Walk(_, _)
\* follow path components from directory n; None when one is missing
Walk(n, comps) ==
  IF comps = <<>> THEN Some(n)
  ELSE IF comps[1] = <<>> \/ comps[1] = <<46>> THEN Walk(n, Tail(comps))
  ELSE IF comps[1] = <<46, 46>> THEN Walk(ParentOf(n), Tail(comps))
  ELSE LET kids == {m \in Nodes : m # "/" /\ ParentOf(m) = n /\ NameOf(m) = comps[1]}
       IN IF kids = {} THEN None ELSE Walk(CHOOSE m \in kids : TRUE, Tail(comps))
RECURSIVE SplitAt(_, _)
SplitAt(t, c) ==
  LET Brk == {i \in 1..Len(t) : t[i] = c}
  IN IF Brk = {} THEN <<t>>
     ELSE LET k == CHOOSE i \in Brk : \A j \in Brk : i <= j
          IN <<SubSeq(t, 1, k - 1)>> \o SplitAt(SubSeq(t, k + 1, Len(t)), c)
\* (st.cwd / arg).resolve(), or Path(arg).resolve() for an absolute arg
ResolveArg(c, arg) ==
  IF arg # <<>> /\ arg[1] = SLASH THEN Walk("/", SplitAt(arg, SLASH))
  ELSE Walk(c, SplitAt(arg, SLASH))

PromptKey == running /\ mode \in {"prompt", "fuzzy_input"}

\* a printable key is appended; the user types a prefix of one of lines
PromptChar(lines) ==
  \E ch \in Printable(lines) :
    /\ PromptKey
    /\ IsPrefix(Append(input_buffer, ch), lines)
    /\ input_buffer' = Append(input_buffer, ch)
    /\ NoCalls /\ Ghost("prompt_char")
    /\ UNCHANGED <<fsVars, running, dirVars, mode, status, outputVars, previewVars,
                   selectionVars, pendingVars, clipVars, searchVars>>

PromptBackspace ==
  /\ PromptKey
  /\ input_buffer' = SubSeq(input_buffer, 1, Len(input_buffer) - 1)
  /\ NoCalls /\ Ghost("prompt_backspace")
  /\ UNCHANGED <<fsVars, running, dirVars, mode, status, outputVars, previewVars,
                 selectionVars, pendingVars, clipVars, searchVars>>

PromptEsc ==
  /\ PromptKey
  /\ mode' = "browser"
  /\ IF mode = "fuzzy_input"
     THEN fuzzy_type' = None /\ input_buffer' = <<>>
     ELSE UNCHANGED <<fuzzy_type, input_buffer>>
  /\ NoCalls /\ Ghost("prompt_esc")
  /\ UNCHANGED <<fsVars, running, dirVars, status, outputVars, previewVars,
                 selectionVars, pendingVars, clipVars, search_mode, search_results,
                 search_selected>>

\* Tab and every other key
PromptOther ==
  /\ PromptKey
  /\ NoCalls /\ Ghost("prompt_other")
  /\ UNCHANGED <<fsVars, running, dirVars, promptVars, status, outputVars, previewVars,
                 selectionVars, pendingVars, clipVars, searchVars>>

\* Enter in fuzzy_input mode, fuzzy_type "ff"
FuzzyEnter ==
  /\ PromptKey
  /\ mode = "fuzzy_input"
  /\ fuzzy_type = Some("ff")
  /\ search_results' = search_files(cwd, fs, strip(input_buffer))
  /\ search_mode' = Some("ff")
  /\ search_selected' = 0
  /\ output_scroll' = 0
  /\ mode' = "browser"
  /\ input_buffer' = <<>>
  /\ status' = "ff results"
  /\ NoCalls /\ Ghost("fuzzy_enter")
  /\ UNCHANGED <<fsVars, running, dirVars, last_output, show_last_output, previewVars,
                 selectionVars, pendingVars, clipVars, fuzzy_type>>

\* Enter in prompt mode: an empty line, help or an unknown command
CmdPlain ==
  /\ PromptKey
  /\ mode = "prompt"
  /\ CmdKind(strip(input_buffer)) \in {"empty", "unknown"}
  /\ status' = IF CmdKind(strip(input_buffer)) = "empty" THEN status ELSE "Unknown"
  /\ mode' = "browser"
  /\ input_buffer' = <<>>
  /\ NoCalls /\ Ghost("cmd_plain")
  /\ UNCHANGED <<fsVars, running, dirVars, outputVars, previewVars, selectionVars,
                 pendingVars, clipVars, searchVars>>

\* cd <path>
CmdCd ==
  /\ PromptKey
  /\ mode = "prompt"
  /\ CmdKind(strip(input_buffer)) = "cd"
  /\ history' = save_position(history, cwd, selected, top_index)
  /\ LET cmd == strip(input_buffer)
         arg == strip(SubSeq(cmd, 4, Len(cmd)))
         newdir == ResolveArg(cwd, arg)
     IN IF newdir # None /\ is_dir(newdir[1], fs)
        THEN /\ cwd' = newdir[1]
             /\ reload(cwd', fs, mtime, history')
             /\ status' = "cd"
             /\ show_last_output' = FALSE
        ELSE /\ status' = "Not a dir"
             /\ UNCHANGED <<cwd, entries, selected, top_index, entries_mtimes,
                            previewVars, selectionVars, show_last_output>>
  /\ mode' = "browser"
  /\ input_buffer' = <<>>
  /\ NoCalls /\ Ghost("cmd_cd")
  /\ UNCHANGED <<fsVars, running, last_output, output_scroll, pendingVars, clipVars,
                 searchVars>>

\* ls
CmdLs ==
  /\ PromptKey
  /\ mode = "prompt"
  /\ CmdKind(strip(input_buffer)) = "ls"
  /\ reload(cwd, fs, mtime, history)
  /\ status' = "ls"
  /\ mode' = "browser"
  /\ input_buffer' = <<>>
  /\ NoCalls /\ Ghost("cmd_ls")
  /\ UNCHANGED <<fsVars, running, cwd, history, outputVars, pendingVars, clipVars,
                 searchVars>>

\* the path st.cwd / name, where the universe has one
CmdTarget(c, name) ==
  {n \in Nodes : n # "/" /\ ParentOf(n) = c /\ NameOf(n) = name}

\* mkdir <d> and touch <f>: the path is created and the listing reloaded, or
\* the call raises (the path exists, or the directory refuses) and only the
\* status is set
\* cat <f> (lines 984-992): the text of the file becomes the last output
\* and the output pane is switched on
CmdCat ==
  /\ PromptKey
  /\ mode = "prompt"
  /\ CmdKind(strip(input_buffer)) = "cat"
  /\ LET name == split(strip(input_buffer))[2]
         files == {n \in CmdTarget(cwd, name) : is_file(n, fs)}
     IN IF files # {}
        THEN /\ last_output' = Some(safe_read_text(CHOOSE n \in files : TRUE))
             /\ show_last_output' = TRUE
             /\ status' = "Showing"
        ELSE /\ status' = "File does not exist"
             /\ UNCHANGED <<last_output, show_last_output>>
  /\ mode' = "browser"
  /\ input_buffer' = <<>>
  /\ NoCalls /\ Ghost("cmd_cat")
  /\ UNCHANGED <<fsVars, running, dirVars, output_scroll, previewVars, selectionVars,
                 pendingVars, clipVars, searchVars>>

CmdCreate ==
  \E ok \in BOOLEAN :
    /\ PromptKey
    /\ mode = "prompt"
    /\ CmdKind(strip(input_buffer)) \in {"mkdir", "touch"}
    /\ LET kind == CmdKind(strip(input_buffer))
           name == split(strip(input_buffer))[2]
       IN \E path \in CmdTarget(cwd, name) :
            /\ (KindOf(path) = "dir") = (kind = "mkdir") \/ path \in fs
            /\ IF ok /\ path \notin fs
               THEN /\ fs' = fs \cup {path}
                    /\ status' = "created"
                    /\ reload(cwd, fs', mtime, history)
               ELSE /\ status' = IF kind = "mkdir" THEN "mkdir failed" ELSE "touch failed"
                    /\ UNCHANGED <<fs, entries, selected, top_index, entries_mtimes,
                                   previewVars, selectionVars>>
    /\ mode' = "browser"
    /\ input_buffer' = <<>>
    /\ NoCalls /\ Ghost("cmd_create")
    /\ UNCHANGED <<mtime, fs_changes, running, cwd, history, outputVars, pendingVars,
                   clipVars, searchVars>>

\* quit / exit: the loop is left before mode is reset
CmdQuit ==
  /\ PromptKey
  /\ mode = "prompt"
  /\ CmdKind(strip(input_buffer)) = "quit"
  /\ running' = FALSE
  /\ NoCalls /\ Ghost("cmd_quit")
  /\ UNCHANGED <<fsVars, dirVars, promptVars, status, outputVars, previewVars,
                 selectionVars, pendingVars, clipVars, searchVars>>

(* ------------------------------------------------------------------ *)
(* run(): the mouse, the directory poll, the world outside              *)
(* ------------------------------------------------------------------ *)
\* what handle_browser_key / handle_prompt_key do with KEY_MOUSE afterwards
AfterMouse ==
  pending_key' = IF mode = "browser" /\ pending_action = None THEN None ELSE pending_key

\* a mouse event over row my of the listing pane (lines 1058-1064)
MouseLeft ==
  \E my \in 0..(left_h - 1) :
    /\ running
    /\ LET new_sel == top_index + my
       IN IF 0 <= new_sel /\ new_sel < Len(entries)
          THEN /\ selected' = new_sel
               /\ preview_scroll' = 0
               /\ preview_selected_line' = None
               /\ clear_selection
          ELSE UNCHANGED <<selected, previewVars, selectionVars>>
    /\ AfterMouse
    /\ NoCalls /\ Ghost("mouse_left")
    /\ UNCHANGED <<fsVars, running, cwd, history, entries, top_index, entries_mtimes,
                   promptVars, status, outputVars, pending_action, clipVars,
                   searchVars>>

\* a mouse event over row my of the preview pane (lines 1065-1086)
\* a click that leaves selection_end where it was
click_selection_end_ignored(clicked_line) == selection_end

\* a click that moves selection_end one line towards the clicked line
click_selection_end_stepping(clicked_line) ==
  IF selection_mode
  THEN (IF selection_end = None THEN Some(clicked_line)
        ELSE IF clicked_line > selection_end[1] THEN Some(selection_end[1] + 1)
        ELSE IF clicked_line < selection_end[1] THEN Some(selection_end[1] - 1)
        ELSE selection_end)
  ELSE selection_end

\* selection_end after a left click on clicked_line of the preview
\* (lines 1078-1079)
click_selection_end(clicked_line) ==
  IF selection_mode THEN Some(clicked_line) ELSE selection_end

MouseRight ==
  \E my \in 0..(left_h - 1), button \in {"B1", "B4", "B5"} :
    /\ running
    /\ IF pending_action # None
       THEN UNCHANGED <<output_scroll, previewVars, selection_end>>
       ELSE IF OutputShown
       THEN /\ output_scroll' =
                 IF button = "B4" THEN Max(0, output_scroll - 3)
                 ELSE IF button = "B5"
                 THEN Min(Max(0, OutputLines - (left_h - 1)), output_scroll + 3)
                 ELSE output_scroll
            /\ UNCHANGED <<previewVars, selection_end>>
       ELSE IF CursorOnTextFile
       THEN /\ IF button = "B1"
               THEN LET clicked_line == preview_scroll + my + 1
                    IN /\ clicked_line <= MaxLine
                       /\ preview_selected_line' = Some(clicked_line)
                       /\ selection_end' = click_selection_end(clicked_line)
                       /\ UNCHANGED preview_scroll
               ELSE /\ preview_scroll' =
                         IF button = "B4" THEN Max(0, preview_scroll - 3)
                         ELSE Min(Max(0, Len(splitlines(safe_read_text(
                                               Entry(entries, selected)))) - (left_h - 1)),
                                  preview_scroll + 3)
                    /\ UNCHANGED <<preview_selected_line, selection_end>>
            /\ UNCHANGED output_scroll
       ELSE UNCHANGED <<output_scroll, previewVars, selection_end>>
    /\ AfterMouse
    /\ NoCalls /\ Ghost("mouse_right")
    /\ UNCHANGED <<fsVars, running, dirVars, promptVars, status, last_output,
                   show_last_output, selection_mode, selection_start, pending_action,
                   clipVars, searchVars>>

\* Ctrl-C while the loop waits in getch: "except KeyboardInterrupt: break"
Interrupt ==
  /\ running
  /\ running' = FALSE
  /\ NoCalls /\ Ghost("interrupt")
  /\ UNCHANGED <<fsVars, dirVars, promptVars, status, outputVars, previewVars,
                 selectionVars, pendingVars, clipVars, searchVars>>

(* ---- one frame of the preview (lines 376-430, 505-523) ---- *)
\* a row style that never looks at the selection
row_style_ignores_selection(line_num, selected_line, s, e) ==
  IF selected_line # None /\ line_num = selected_line[1] THEN "cursor" ELSE "token"

\* render_with_pygments_curses: the style of the row that shows line_num
row_style(line_num, selected_line, s, e) ==
  LET has_range == s # None /\ e # None
      is_selected == IF has_range
                     THEN Min(s[1], e[1]) <= line_num /\ line_num <= Max(s[1], e[1])
                     ELSE FALSE
      is_single_cursor == selected_line # None /\ line_num = selected_line[1]
                          /\ ~is_selected
  IN IF is_selected THEN "selected"
     ELSE IF is_single_cursor THEN "cursor"
     ELSE "token"

\* len(str(n))
RECURSIVE digits(_)
digits(n) == IF n < 10 THEN 1 ELSE 1 + digits(n \div 10)
\* run() and draw_preview: the pane widths on a terminal width columns wide
left_w(width) == Max(20, width \div 4)
preview_w(width) == Max(10, width - left_w(width))
\* the characters of line ln the renderer draws on such a terminal:
\* line[:max_cols-line_num_width], max_cols = preview_w - 1
RenderedCols(ln, width) ==
  LET lines == splitlines(safe_read_text(Entry(entries, selected)))
      line_num_width == digits(Len(lines)) + 2
  IN Max(0, Min(Len(lines[ln]), preview_w(width) - 1 - line_num_width))
\* the terminal widths a frame is drawn on
Widths == {MIN_WIDTH, MaxWidth}

\* draw_preview: the selected_line it hands to the renderer
selected_in_view ==
  IF preview_selected_line # None /\ ~selection_mode
  THEN LET relative == preview_selected_line[1] - preview_scroll - 1
       IN IF 0 <= relative /\ relative < left_h - 1 THEN preview_selected_line
          ELSE None
  ELSE None

\* the line numbers of the rows drawn: lines[scroll:scroll+max_lines]
RenderedLines ==
  IF CursorOnTextFile
  THEN LET n == Len(splitlines(safe_read_text(Entry(entries, selected))))
       IN {ln \in (preview_scroll + 1)..(preview_scroll + (left_h - 1)) : ln <= n}
  ELSE {}

\* the style draw_preview gives the row of line ln in this frame
PreviewStyle(ln) ==
  LET r == get_selected_range(selection_start, selection_end)
  IN row_style(ln, selected_in_view, r[1], r[2])

\* check_fs_changes finds something to reload (lines 276-303); a check that
\* finds nothing changes nothing
FsChanged ==
  LET current_list == Listing(cwd, fs)
  IN \/ Names(current_list) # Names(entries)
     \/ \E n \in Range(current_list) :
          IF n \notin DOMAIN entries_mtimes THEN TRUE
          ELSE mtime[n] # entries_mtimes[n]
Poll ==
  /\ running
  /\ FsChanged
  /\ reload(cwd, fs, mtime, history)
  /\ status' = IF Names(Listing(cwd, fs)) # Names(entries)
               THEN "fs: directory changed" ELSE "fs: entries updated"
  /\ NoCalls /\ Ghost("poll")
  /\ UNCHANGED <<fsVars, running, cwd, history, promptVars, outputVars, pendingVars,
                 clipVars, searchVars>>

\* the paths another process creates, removes or rewrites
Volatile == {"/c"}
ExternalChange ==
  \E n \in Volatile :
    /\ fs_changes < MaxFsChanges
    /\ fs_changes' = fs_changes + 1
    /\ mtime' = [mtime EXCEPT ![n] = @ + 1]
    /\ \/ n \in fs /\ fs' = fs \ {n}
       \/ n \in fs /\ fs' = fs
       \/ n \notin fs /\ ParentOf(n) \in fs /\ fs' = fs \cup {n}
    /\ UNCHANGED <<height, running, dirVars, promptVars, status, outputVars,
                   previewVars, selectionVars, pendingVars, clipVars, searchVars,
                   watch, lastEvent, lastKey, entered_from, deleted, clip_text,
                   callVars>>

(* ------------------------------------------------------------------ *)
(* Specifications                                                      *)
(* ------------------------------------------------------------------ *)
Heights == MIN_HEIGHT..MaxHeight
\* every name a step can record in lastEvent
AllEvents ==
  {"confirm_yes", "confirm_no", "confirm_other", "dd", "yy", "mm", "ff", "fl",
   "esc_selection", "esc_search", "visual", "selection_move", "up", "down",
   "left", "enter_dir", "open_file", "prompt", "toggle_output", "npage", "ppage",
   "ctrl_d", "ctrl_u", "pend", "paste", "powershell", "quit", "other",
   "mouse_left", "mouse_right", "poll"}

\* Navigation: moving, paging, entering and leaving directories, opening a
\* file, the mouse on the listing; started in the root, in a directory with
\* one file, or in an empty directory
NavFs == {"/", "/a", "/a/t", "/b", "/c"}
NavLines == {Line_ls, Line_cd_a, Line_cd_root}
InitNav == \E c \in {"/", "/a", "/b"}, h \in Heights : InitState(c, NavFs, h, {})
NextNav ==
  \/ MoveUp \/ MoveDown \/ PageUp \/ PageDown \/ GoParent \/ EnterDir \/ OpenFile
  \/ MouseLeft
SpecNav == InitNav /\ [][NextNav]_vars

\* Navigation while another process changes the directory and the poll reloads
NextTrip ==
  \/ MoveUp \/ MoveDown \/ PageUp \/ PageDown \/ GoParent \/ EnterDir
  \/ Poll \/ ExternalChange
SpecTrip == InitNav /\ [][NextTrip]_vars

\* Deleting: the two-key sequences, the confirmation, and the keys, the mouse,
\* the yank, the paste and the prompt around them, at the smallest height
DelFs == {"/", "/a", "/a/t"}
DelWatch == {"pend", "dd", "confirm_yes", "confirm_no", "confirm_other", "mouse_left"}
InitDel == InitState("/", DelFs, MIN_HEIGHT, DelWatch)
NextDel ==
  \/ MoveUp \/ MoveDown \/ GoParent \/ EnterDir
  \/ PendKey({"d", "y"}) \/ PendingDelete \/ PendingYank
  \/ ConfirmYes \/ ConfirmNo \/ ConfirmOther
  \/ Paste \/ OtherKey \/ Quit \/ MouseLeft
  \/ OpenPrompt \/ PromptEsc
SpecDel == InitDel /\ [][NextDel]_vars

\* Selecting lines of the previewed file and copying them
SelFs == {"/", "/c", "/d", "/e"}
InitSel == \E h \in Heights : InitState("/", SelFs, h, {"visual", "selection_move"})
NextSel ==
  \/ MoveUp \/ MoveDown \/ Visual \/ SelectionMove \/ EscSelection
  \/ MouseRight \/ HalfPage
SpecSel == InitSel /\ [][NextSel]_vars

\* fuzzy_score on every candidate and query over a small alphabet
FuzzyChars == {97, 65, 98}
Strings(n) == UNION {[1..k -> FuzzyChars] : k \in 0..n}
InitFuzzy ==
  /\ InitProgram("/", NavFs, MIN_HEIGHT, {})
  /\ NoSkipCall
  /\ arg_name \in Strings(MaxNameLen)
  /\ arg_query \in Strings(MaxQueryLen)
  /\ ret_score = None
  /\ arg_files = {}
  /\ ret_files = None
SpecFuzzy == InitFuzzy /\ [][CallFuzzy]_vars

\* should_skip on a few names, as a file and as a directory, under every
\* list of up to MaxPatterns gitignore lines
SkipNames ==
  { <<97>>,  \* a
    <<97, 98>>,  \* ab
    <<97, 46, 115, 111>>,  \* a.so
    <<107, 101, 101, 112, 46, 108, 111, 103>>,  \* keep.log
    <<46, 103, 105, 116>>,  \* .git
    <<84, 104, 117, 109, 98, 115, 46, 100, 98>>}  \* Thumbs.db
SkipLines ==
  { <<42>>,  \* *
    <<97>>,  \* a
    <<33, 97>>,  \* !a
    <<33, 97, 42>>,  \* !a*
    <<42, 46, 108, 111, 103>>,  \* *.log
    <<33, 107, 101, 101, 112, 46, 108, 111, 103>>,  \* !keep.log
    <<33, 42, 46, 115, 111>>,  \* !*.so
    <<33, 46, 103, 105, 116>>,  \* !.git
    <<33, 84, 104, 117, 109, 98, 115, 46, 100, 98>>,  \* !Thumbs.db
    <<63, 98>>}  \* ?b
InitSkip ==
  /\ InitProgram("/", NavFs, MIN_HEIGHT, {})
  /\ arg_name = <<>>
  /\ arg_query = <<>>
  /\ ret_score = None
  /\ arg_files = {}
  /\ ret_files = None
  /\ arg_rel \in SkipNames
  /\ arg_is_dir \in BOOLEAN
  /\ arg_patterns \in UNION {[1..k -> SkipLines] : k \in 0..MaxPatterns}
  /\ ret_skip = None
SpecSkip == InitSkip /\ [][CallShouldSkip]_vars

\* search_files on every tree of a few named files and a few queries
File_parser_py == <<112, 97, 114, 115, 101, 114, 46, 112, 121>>
File_rust_rs == <<114, 117, 115, 116, 46, 114, 115>>
File_rust_server_rs == <<114, 117, 115, 116, 95, 115, 101, 114, 118, 101, 114, 46, 114, 115>>
File_RS == <<82, 83>>
RankFiles == {File_parser_py, File_rust_rs, File_rust_server_rs, File_RS}
Query_rs == <<114, 115>>
RankQueries == {Query_rs, <<82, 83>>, <<114>>, <<112, 121>>, <<115, 114, 118>>,
                <<120>>, <<>>}
InitRank ==
  /\ InitProgram("/", NavFs, MIN_HEIGHT, {})
  /\ NoSkipCall
  /\ arg_name = <<>>
  /\ ret_score = None
  /\ arg_files \in SUBSET RankFiles
  /\ arg_query \in RankQueries
  /\ ret_files = None
SpecRank == InitRank /\ [][CallSearchFiles]_vars

\* Searching file names: f f, the query line, the result list and the keys
\* around it, at the smallest height
SearchFs == {"/", "/a", "/a/t", "/c"}
SearchLines == {<<116>>, <<99>>}
InitSearch == InitState("/", SearchFs, MIN_HEIGHT, {})
NextSearch ==
  \/ MoveUp \/ MoveDown \/ GoParent \/ EnterDir \/ OpenFile
  \/ PendKey({"f"}) \/ PendingFuzzyFiles
  \/ PromptChar(SearchLines) \/ PromptBackspace \/ PromptEsc \/ FuzzyEnter
  \/ SearchUp \/ SearchDown \/ SearchCommit \/ SearchOther \/ EscSearch
SpecSearch == InitSearch /\ [][NextSearch]_vars

\* Cancelling: Esc and the second v while lines are selected, with a delete
\* confirmation pending, the prompt open or a result list shown, and while
\* another process removes the previewed file
EscFs == {"/", "/a", "/c"}
EscLines == {<<99>>}
InitEsc == InitState("/", EscFs, MIN_HEIGHT, {})
NextEsc ==
  \/ MoveDown \/ Visual \/ SelectionMove \/ EscSelection
  \/ PendKey({"d", "f"}) \/ PendingDelete \/ ConfirmYes \/ ConfirmNo \/ ConfirmOther
  \/ OpenPrompt \/ PromptChar(EscLines) \/ PromptEsc
  \/ PendingFuzzyFiles \/ FuzzyEnter \/ SearchOther \/ EscSearch
  \/ Poll \/ ExternalChange
SpecEsc == InitEsc /\ [][NextEsc]_vars

\* Selecting lines, then every event that moves the cursor or reloads the
\* listing: the listing keys, a click, entering and leaving, the ls command,
\* opening a search result, another process rewriting the directory
ClearFs == {"/", "/a", "/c"}
ClearLines == {Line_ls, <<99>>}
InitClear == InitState("/", ClearFs, MIN_HEIGHT, {})
NextClear ==
  \/ MoveUp \/ MoveDown \/ GoParent \/ EnterDir \/ MouseLeft
  \/ Visual \/ SelectionMove
  \/ OpenPrompt \/ PromptChar(ClearLines) \/ CmdPlain \/ CmdLs
  \/ PendKey({"f"}) \/ PendingFuzzyFiles \/ FuzzyEnter
  \/ SearchUp \/ SearchDown \/ SearchCommit \/ SearchOther
  \/ Poll \/ ExternalChange
SpecClear == InitClear /\ [][NextClear]_vars

\* The directory poll: a directory of files, with or without the file that
\* another process removes and creates, or with nothing in it yet
PollFs == {{"/", "/c", "/d", "/e"}, {"/", "/d", "/e"}, {"/"}}
InitPoll == \E f \in PollFs : InitState("/", f, MIN_HEIGHT, {"poll"})
NextPoll ==
  \/ MoveUp \/ MoveDown \/ PageUp \/ PageDown \/ GoParent \/ OpenFile
  \/ Poll \/ ExternalChange
SpecPoll == InitPoll /\ [][NextPoll]_vars

\* Leaving: the quit key, the quit and exit commands, Ctrl-C, and the keys
\* that page through a directory with entries or without
QuitFs == {"/", "/b", "/c"}
QuitLines == {Line_quit, Word_exit}
InitQuit == \E c \in {"/", "/b"} : InitState(c, QuitFs, MIN_HEIGHT, {})
NextQuit ==
  \/ MoveUp \/ MoveDown \/ PageUp \/ PageDown \/ GoParent \/ EnterDir
  \/ OpenPrompt \/ PromptChar(QuitLines) \/ PromptBackspace \/ PromptEsc \/ PromptOther
  \/ CmdPlain \/ CmdQuit \/ Quit \/ OtherKey \/ Interrupt
SpecQuit == InitQuit /\ [][NextQuit]_vars

\* A search session from f f to its end: the query, the result list, Enter
\* and Esc on it, lines selected meanwhile, and another process removing the
\* file that was found
SessionFs == {"/", "/a", "/c"}
SessionLines == {<<99>>}
InitSession == InitState("/", SessionFs, MIN_HEIGHT, {})
NextSession ==
  \/ MoveDown \/ PendKey({"f"}) \/ PendingFuzzyFiles
  \/ PromptChar(SessionLines) \/ PromptEsc \/ FuzzyEnter
  \/ SearchUp \/ SearchDown \/ SearchCommit \/ SearchOther \/ EscSearch
  \/ Visual \/ EscSelection
  \/ Poll \/ ExternalChange
SpecSession == InitSession /\ [][NextSession]_vars

\* Selecting and scrolling the preview in the root directory, and the key
\* that asks for the parent
InitRoot == \E h \in Heights : InitState("/", SelFs, h, {"left"})
NextRoot == NextSel \/ GoParent
SpecRoot == InitRoot /\ [][NextRoot]_vars

\* Moving, paging and clicking through a listing longer than a small terminal
\* shows at once, through a listing of one entry and through an empty one
MoveFs == {"/", "/a", "/a/t", "/b", "/c", "/d", "/e", "/f", "/g"}
InitMove ==
  \E c \in {"/", "/a", "/b"}, h \in MIN_HEIGHT..MoveMaxHeight :
    InitState(c, MoveFs, h, {"up", "down"})
NextMove == MoveUp \/ MoveDown \/ PageUp \/ PageDown \/ MouseLeft
SpecMove == InitMove /\ [][NextMove]_vars

\* Operations on the file system and their failures: delete with its
\* confirmation, yank and paste, touch and mkdir from the prompt, with lines
\* selected beforehand
OpsFs == {"/", "/a", "/f"}
OpsLines == {Line_touch_f, Line_mkdir_a}
InitOps == InitState("/", OpsFs, MIN_HEIGHT, {})
NextOps ==
  \/ MoveDown \/ Visual
  \/ PendKey({"d", "y"}) \/ PendingDelete \/ PendingYank
  \/ ConfirmYes \/ ConfirmNo \/ ConfirmOther \/ Paste
  \/ OpenPrompt \/ PromptChar(OpsLines) \/ CmdPlain \/ CmdCreate
SpecOps == InitOps /\ [][NextOps]_vars

\* Previewing a long file: scrolling it by half pages and by the wheel,
\* clicking on its lines
LongFs == {"/", "/g"}
InitLong == InitState("/", LongFs, MIN_HEIGHT, {})
NextLong == HalfPage \/ MoveDown
SpecLong == InitLong /\ [][NextLong]_vars

\* A result list longer than the preview pane: f f, a query that finds five
\* files or one that finds none, and up and down in the list
ResultsFs == {"/", "/a", "/a/t", "/a/u", "/a/v", "/a/w", "/a/x"}
ResultsLines == {<<97, 116>>, <<117>>, <<122>>}
InitResults ==
  \E h \in MIN_HEIGHT..MoveMaxHeight : InitState("/", ResultsFs, h, {})
NextResults ==
  \/ PendKey({"f"}) \/ PendingFuzzyFiles
  \/ PromptChar(ResultsLines) \/ PromptBackspace \/ PromptEsc \/ FuzzyEnter
  \/ SearchUp \/ SearchDown \/ SearchCommit \/ SearchOther \/ EscSearch
SpecResults == InitResults /\ [][NextResults]_vars

\* What the preview pane shows: cat puts a file into the output pane, o
\* toggles it, f f searches, d d asks for a confirmation
PaneFs == {"/", "/c"}
PaneLines == {Line_cat_c, Word_cat \o <<SP, 101>>, <<99>>}
InitPane == InitState("/", PaneFs, MIN_HEIGHT, {})
NextPane ==
  \/ OpenPrompt \/ PromptChar(PaneLines) \/ CmdCat \/ CmdPlain \/ ToggleOutput
  \/ PendKey({"f", "d"}) \/ PendingFuzzyFiles \/ FuzzyEnter
  \/ SearchUp \/ SearchDown \/ EscSearch
  \/ PendingDelete \/ ConfirmNo
SpecPane == InitPane /\ [][NextPane]_vars

\* Arming a delete on one of three entries, then moving, clicking in the
\* listing and letting the poll reload it before the answer is given
ArmFs == {"/", "/a", "/c", "/d"}
InitArm == InitState("/", ArmFs, MIN_HEIGHT, {"dd", "confirm_yes"})
NextArm ==
  \/ MoveUp \/ MoveDown \/ MouseLeft
  \/ PendKey({"d"}) \/ PendingDelete
  \/ ConfirmYes \/ ConfirmNo \/ ConfirmOther
  \/ Poll \/ ExternalChange
SpecArm == InitArm /\ [][NextArm]_vars

(* ------------------------------------------------------------------ *)
(* Properties                                                          *)
(* ------------------------------------------------------------------ *)
\* the cursor row is inside the window draw_browser draws
CursorVisible == top_index <= selected /\ selected <= top_index + left_h - 1
\* a key moved the cursor up or down in the listing
Moved == MoveUp \/ MoveDown

\* C1: in every reachable state a non-empty listing has
\* 0 <= selected < len(entries), and an empty listing has selected = 0 and
\* top_index = 0.
C1_CursorInRange ==
  IF entries # <<>>
  THEN 0 <= selected /\ selected < Len(entries)
  ELSE selected = 0 /\ top_index = 0

\* C2: after any move up or down, from any reachable state, the cursor row is
\* inside the drawn window: top_index <= selected <= top_index + h - 1 with
\* h = height - 2.
C2_VisibleAfterMove == [][(Moved /\ entries # <<>>) => CursorVisible']_vars

\* C3: whenever the whole listing fits the panel (len(entries) <= h), the
\* viewport top is 0 after any move up or down.
C3_TopZeroWhenFits ==
  [][(Moved /\ entries # <<>> /\ Len(entries') <= left_h') => top_index' = 0]_vars

\* C4: entering the sub-directory at index i of D and going to the parent at
\* once, with D's listing the same as before, leaves cwd = D and the cursor
\* at i.
C4_RoundTrip ==
  (entered_from # None /\ entered_from[1] = "back" /\ entries = entered_from[4])
    => (cwd = entered_from[2] /\ selected = entered_from[3])
\* a round trip from an index other than 0 has been made
C4_Witness ==
  /\ entered_from # None
  /\ entered_from[1] = "back"
  /\ entries = entered_from[4]
  /\ entered_from[3] > 0
  /\ selected = entered_from[3]

\* C5: whenever the user goes to the parent directory, the cursor of the
\* parent listing ends on the child directory just left, whatever position is
\* stored for the parent and however the child was reached.
C5_ParentSelectsChild ==
  [][(GoParent /\ ParentOf(cwd) # cwd /\ cwd \in Range(entries'))
       => IF 0 <= selected' /\ selected' < Len(entries')
          THEN entries'[selected' + 1] = cwd
          ELSE FALSE]_vars

\* C6: entering a directory that has no stored position sets
\* (selected, top_index) to (0, 0), whatever they were in the directory left.
C6_EnterFreshAtOrigin ==
  [][(EnterDir /\ history[cwd'] = None) => (selected' = 0 /\ top_index' = 0)]_vars

\* C7: a path is handed to safe_delete_path only in a step where a delete
\* confirmation for that very path is pending and the key is y or Y, and
\* that step removes nothing but the path and what lies below it; a
\* confirmation comes to be pending only by the key d pressed while the key d
\* is the pending key, on a non-empty listing, and is for the entry under the
\* cursor; and d becomes the pending key only by the key d.
C7_DeleteOnlyWhenConfirmed ==
  [][/\ deleted' # None
          => /\ pending_action # None
             /\ pending_action[1] = "delete"
             /\ deleted' = Some(pending_action[2])
             /\ lastEvent' = "confirm_yes"
             /\ lastKey' \in {"y", "Y"}
             /\ fs \ fs' \subseteq Removed(pending_action[2], fs)
             /\ fs' \subseteq fs
     /\ (pending_action' # None /\ pending_action' # pending_action)
          => /\ lastEvent' = "dd"
             /\ lastKey' = "d"
             /\ pending_key = Some("d")
             /\ entries # <<>>
             /\ pending_action' = <<"delete", Entry(entries, selected)>>
     /\ (pending_key' = Some("d") /\ pending_key # Some("d"))
          => (lastEvent' = "pend" /\ lastKey' = "d")]_vars
\* a confirmed delete has just removed the path
C7_Witness ==
  /\ lastEvent = "confirm_yes"
  /\ deleted # None
  /\ deleted[1] \notin fs

\* C8: once a delete is armed (d is the pending key, or the confirmation is
\* pending), any key other than the one that advances or confirms it, Esc
\* included, disarms it: afterwards d is not the pending key and no
\* confirmation is pending.  (While d is the pending key every step that is
\* neither the second d nor the mouse is such a key; while the confirmation
\* is pending the keys other than y and Y take the branches confirm_no and
\* confirm_other.)
C8_OtherKeyCancels ==
  [][/\ (pending_key = Some("d") /\ lastEvent' \notin {"dd", "mouse_left"})
          => (pending_key' # Some("d") /\ pending_action' = None)
     /\ (pending_action # None /\ lastEvent' \in {"confirm_no", "confirm_other"})
          => (pending_key' # Some("d") /\ pending_action' = None)]_vars

\* the lines of a text numbered a..m or m..a that exist, joined by newlines
SelectedText(lines, a, m) ==
  LET lo == Min(a, m)
      hi == Min(Max(a, m), Len(lines))
  IN join_nl([k \in 1..(hi - lo + 1) |-> lines[lo + k - 1]])
\* C9: the second v/V, with anchor a and moving line m, hands the clipboard
\* the lines min(a,m)..max(a,m) of the file (those of them the file has)
\* joined by single newlines with none appended, a text that is the same for
\* (a,m) and (m,a) and is the one line when a = m; and nothing else hands the
\* clipboard a text.
C9_CommitCopiesRange ==
  [][/\ (lastEvent' = "visual" /\ selection_mode /\ ~selection_mode')
          => LET lines == splitlines(Content(Entry(entries, selected)))
                 a == selection_start[1]
                 m == selection_end[1]
             IN /\ clip_text' = Some(SelectedText(lines, a, m))
                /\ SelectedText(lines, a, m) = SelectedText(lines, m, a)
                /\ (a = m /\ a <= Len(lines)) => clip_text' = Some(lines[a])
     /\ clip_text' # None
          => (lastEvent' = "visual" /\ selection_mode /\ ~selection_mode')]_vars
\* a selection of more than one line has just been copied
C9_Witness ==
  /\ lastEvent = "visual"
  /\ clip_text # None
  /\ NL \in Range(clip_text[1])

\* q is a subsequence of n: an increasing choice of positions of n spells q
IsSubsequence(q, n) ==
  \E f \in [1..Len(q) -> 1..Len(n)] :
    /\ \A i \in 1..Len(q) : n[f[i]] = q[i]
    /\ \A i, j \in 1..Len(q) : i < j => f[i] < f[j]
QueryMatches == IsSubsequence(LowerStr(arg_query), LowerStr(arg_name))
ScoreIsZero == ret_score[1][1] = 0

\* C10 as stated: for every candidate and every query, the empty query
\* included, fuzzy_score is 0 exactly when the query is not a
\* case-insensitive subsequence of the candidate.
C10_ZeroIffNoMatch ==
  ret_score # None => (ScoreIsZero <=> ~QueryMatches)
\* C10: for every candidate and every non-empty query, fuzzy_score is 0
\* exactly when the query is not a case-insensitive subsequence of the
\* candidate; for the empty query it is 0.
C10_ZeroIffNoMatchOrEmpty ==
  ret_score # None =>
    IF arg_query = <<>> THEN ScoreIsZero ELSE (ScoreIsZero <=> ~QueryMatches)
\* a non-empty query has matched a candidate that differs from it in case
C10_Witness ==
  /\ ret_score # None
  /\ arg_query # <<>>
  /\ ~ScoreIsZero
  /\ ~IsSubsequence(arg_query, arg_name)

\* position of x in seq, 0 when absent
IndexOf(seq, x) ==
  IF x \in Range(seq) THEN CHOOSE i \in 1..Len(seq) : seq[i] = x ELSE 0
\* search_files has ranked parser.py, rust.rs and rust_server.rs for "rs"
RankScenario ==
  /\ ret_files # None
  /\ arg_files = {File_parser_py, File_rust_rs, File_rust_server_rs}
  /\ arg_query = Query_rs

\* C11 as stated: ranking parser.py, rust.rs, rust_server.rs for the query
\* "rs" puts rust.rs before rust_server.rs, and parser.py is excluded or last.
C11_ParserLastOrExcluded ==
  RankScenario =>
    LET r == ret_files[1]
    IN /\ IndexOf(r, File_rust_rs) > 0
       /\ IndexOf(r, File_rust_rs) < IndexOf(r, File_rust_server_rs)
       /\ IndexOf(r, File_parser_py) \in {0, Len(r)}
\* C11: ranking parser.py, rust.rs, rust_server.rs for the query "rs" gives
\* parser.py (score 1, r and s adjacent), then rust.rs, then rust_server.rs
\* (both 2/3, the tie broken by the order of the strings).
C11_ParserFirst ==
  RankScenario =>
    ret_files[1] = <<File_parser_py, File_rust_rs, File_rust_server_rs>>
\* the scenario has been ranked, and rust.rs and rust_server.rs tie
C11_Witness ==
  /\ RankScenario
  /\ Len(ret_files[1]) = 3
  /\ fuzzy_score(File_rust_rs, Query_rs) = fuzzy_score(File_rust_server_rs, Query_rs)

\* C12: f then l opens the line-search input (mode fuzzy_input, type "fl"),
\* in the way f then f opens the file-search input (type "ff")
C12_FThenLOpensLineSearch ==
  [][/\ (pending_key = Some("f") /\ KeyTakes("l", "right") /\ (EnterDir \/ OpenFile))
        => (mode' = "fuzzy_input" /\ fuzzy_type' = Some("fl"))
     /\ (pending_key = Some("f") /\ KeyTakes("f", "ff") /\ PendingFuzzyFiles)
        => (mode' = "fuzzy_input" /\ fuzzy_type' = Some("ff"))]_vars

\* Esc arrives: in the browser it runs the confirmation branch or the Esc
\* block, in the prompt and the search input the Esc branch of handle_prompt_key
EscKey ==
  \/ KeyTakes("ESC", "confirm_no") /\ ConfirmNo
  \/ KeyTakes("ESC", "esc_selection") /\ EscSelection
  \/ KeyTakes("ESC", "esc_search") /\ EscSearch
  \/ PromptEsc

\* C13: Esc pressed while lines are selected, whatever else is going on (a
\* delete confirmation pending, a result list shown, the prompt open), leaves
\* the selection inactive and hands nothing to the clipboard
C13_EscCancelsSelection ==
  [][(selection_mode /\ EscKey) => (~selection_mode' /\ clip_text' = None)]_vars

\* C14: every step that changes the listing cursor, the entry list or the
\* current directory leaves the selection inactive: selection_mode is false
\* and neither bound is set
C14_SelectionClearedOnChange ==
  [][(selected' # selected \/ entries' # entries \/ cwd' # cwd)
       => (~selection_mode' /\ selection_start' = None /\ selection_end' = None)]_vars
\* lines of the file at index 1 were selected, and a step that does not touch
\* the status then moved the cursor to index 0
C14_Witness ==
  /\ status = "VISUAL MODE"
  /\ selected = 0
  /\ ~selection_mode /\ selection_start = None /\ selection_end = None

\* total_lines of the up / down handler: len(txt.splitlines()) or 1
TotalLines(n) ==
  LET k == Len(splitlines(safe_read_text(n))) IN IF k = 0 THEN 1 ELSE k

\* C15: while lines are selected, the moving line selection_end is one of the
\* lines 1..total_lines of the previewed file, whatever up / down keys and
\* clicks in the preview pane came before
C15_MovingLineInFile ==
  (selection_mode /\ CursorOnTextFile)
    => /\ selection_end # None
       /\ 1 <= selection_end[1]
       /\ selection_end[1] <= TotalLines(Entry(entries, selected))

\* which of its branches draw_preview takes (lines 437-470)
draw_preview_pane ==
  IF pending_action # None THEN "confirm"
  ELSE IF OutputShown THEN "output"
  ELSE IF search_mode # None THEN "results"
  ELSE IF entries = <<>> THEN "empty"
  ELSE "entry"
\* the rows of the file draw_preview draws: max_lines = height - 1 of a pane
\* that is left_h high
PreviewRows == left_h - 1

\* C16: after every up / down key while lines are selected the moving line is
\* one of the lines the preview draws:
\* preview_scroll + 1 <= line <= preview_scroll + (terminal height - 3)
C16_MovingLineDrawn ==
  [][SelectionMove
       => /\ PreviewRows = height - 3
          /\ preview_scroll' + 1 <= selection_end'[1]
          /\ selection_end'[1] <= preview_scroll' + PreviewRows]_vars
\* a down key has just taken the moving line below the window and the
\* preview has scrolled to keep it on the last row drawn
C16_Witness ==
  /\ lastEvent = "selection_move"
  /\ selection_mode
  /\ preview_scroll > 0
  /\ selection_end = Some(preview_scroll + PreviewRows)

\* C17: v or V pressed while lines are selected always leaves the selection
\* inactive, whether or not anything reached the clipboard
C17_SecondVDeactivates ==
  [][(selection_mode /\ Visual) => ~selection_mode']_vars

\* the index i clamped into a listing of n entries
ClampIndex(i, n) == Max(0, Min(i, n - 1))

\* C18: after a reload by the change check that found another name sequence,
\* the cursor is on the entry with the name it was on before when that name is
\* still listed, and otherwise at the previous index clamped into the listing
C18_CursorFollowsName ==
  [][(Poll /\ Names(entries') # Names(entries) /\ entries # <<>>)
       => LET name == NameOf(Entry(entries, selected))
          IN IF \E i \in 1..Len(entries') : NameOf(entries'[i]) = name
             THEN NameOf(Entry(entries', selected')) = name
             ELSE selected' = ClampIndex(selected, Len(entries'))]_vars

\* C19: a change check that finds the names on disk differing from the names
\* listed reloads the listing, and then 0 <= selected <= len(entries) - 1 when
\* the new listing is not empty
C19_CursorInBoundsAfterPoll ==
  [][(Poll /\ Names(Listing(cwd, fs)) # Names(entries))
       => /\ entries' = Listing(cwd, fs)
          /\ entries' # <<>> => (0 <= selected' /\ selected' <= Len(entries') - 1)]_vars

\* C20: the event loop is left only by the quit key or by the quit / exit
\* command; whatever else happens, an exception while a key is handled or a
\* frame is drawn included, the loop goes on
C20_OnlyQuitEndsLoop ==
  [][(running /\ ~running') => (Quit \/ CmdQuit)]_vars

\* Enter arrives while a non-empty result list is shown: the result is opened,
\* or it is no longer a file and the key does nothing
EnterOnResults ==
  /\ KeyTakes("ENTER", "search_commit")
  /\ search_results # <<>>
  /\ \/ SearchCommit
     \/ /\ \A target \in ResultTarget(cwd, Entry(search_results, search_selected)) :
             ~is_file(target, fs)
        /\ SearchOther
\* Esc arrives in the browser while a non-empty result list is shown
EscOnResults ==
  /\ search_mode # None
  /\ search_results # <<>>
  /\ \/ KeyTakes("ESC", "esc_selection") /\ EscSelection
     \/ KeyTakes("ESC", "esc_search") /\ EscSearch

\* C21: a search session ends on commit and on cancel: after Enter on a
\* non-empty result list, and after Esc while results are shown, search_mode
\* is None and the result list is empty
C21_SessionEndsOnEnterOrEsc ==
  [][(EnterOnResults \/ EscOnResults)
       => (search_mode' = None /\ search_results' = <<>>)]_vars

\* C22: asking for the parent while cwd is the root of the file system changes
\* neither cwd, the entries, the cursor, the viewport top, the selection nor
\* the preview state, and sets no status
C22_ParentOfRootNoOp ==
  [][(cwd = "/" /\ GoParent)
       => UNCHANGED <<cwd, entries, selected, top_index, selectionVars, previewVars,
                      status>>]_vars
\* the key arrived in the root while lines were selected in a scrolled preview
C22_Witness ==
  /\ lastEvent = "left"
  /\ cwd = "/"
  /\ selection_mode
  /\ preview_scroll > 0

\* the cursor is on one of the n entries of a non-empty listing
CursorInRange == entries # <<>> /\ 0 <= selected /\ selected <= Len(entries) - 1

\* C23: in a non-empty listing of n entries with the cursor in range, up at
\* cursor 0 leaves it at 0, down at cursor n - 1 leaves it at n - 1, and every
\* up and down leaves the cursor within 0..n-1
C23_MovesStayInRange ==
  [][(CursorInRange /\ Moved)
       => /\ CursorInRange'
          /\ (MoveUp /\ selected = 0) => selected' = 0
          /\ (MoveDown /\ selected = Len(entries) - 1) => selected' = selected]_vars
\* down was pressed in a listing of one entry and the cursor is still on it
C23_Witness ==
  /\ lastEvent = "down"
  /\ Len(entries) = 1
  /\ selected = 0

\* the status messages of a file-system operation that failed
FailedStatus ==
  {"delete failed", "paste failed", "paste failed: nothing to paste",
   "paste failed: source missing", "mkdir failed", "touch failed"}
\* what reload() leaves behind, whatever the listing was
Reloaded ==
  /\ entries' = Listing(cwd', fs')
  /\ preview_scroll' = 0
  /\ preview_selected_line' = None
  /\ ~selection_mode' /\ selection_start' = None /\ selection_end' = None

\* C24: a file-system operation issued from the UI that fails sets its status
\* message and reloads the listing within the same event
C24_FailureReloads ==
  [][((ConfirmYes \/ Paste \/ CmdCreate) /\ status' \in FailedStatus)
       => Reloaded]_vars

\* line ln lies between the anchor and the moving line of the selection
InSelection(ln) ==
  /\ selection_start # None /\ selection_end # None
  /\ Min(selection_start[1], selection_end[1]) <= ln
  /\ ln <= Max(selection_start[1], selection_end[1])

\* C25: every preview row drawn has the selected-range style when its line is
\* inside the selection, else the cursor style when it is the preview cursor
\* line, else token styling; a row inside the selection never has another style
C25_RowStyleOrder ==
  \A ln \in RenderedLines :
    PreviewStyle(ln) = IF InSelection(ln) THEN "selected"
                       ELSE IF preview_selected_line = Some(ln) THEN "cursor"
                       ELSE "token"
\* a frame that draws rows inside a selection of several lines and rows
\* outside it
C25_Witness ==
  /\ selection_mode
  /\ selection_start # selection_end
  /\ \E a, b \in RenderedLines : a # b /\ InSelection(a) /\ InSelection(b)
  /\ \E c \in RenderedLines : ~InSelection(c)

\* C26: the preview shows at most the first 400 lines of a file and the first
\* 300 columns of a line: whatever the file and the scroll offset, no row of a
\* line beyond 400 and no character beyond column 300 is drawn
C26_PreviewBounded ==
  \A ln \in RenderedLines :
    /\ ln <= PREVIEW_MAX_LINES
    /\ \A width \in Widths : RenderedCols(ln, width) <= PREVIEW_MAX_CHARS_PER_LINE

\* C27: once should_skip has returned for a name that some negation line
\* ("!pattern") of the gitignore list matches, it has returned False, whatever
\* positive lines or built-in ignore lists match the name too.
Negated(name, pats) ==
  \E i \in 1..Len(pats) :
    /\ pats[i] # <<>>
    /\ pats[i][1] = BANG
    /\ fnmatch(name, Tail(pats[i]))
C27_NegationReincludes ==
  (ret_skip # None /\ Negated(arg_rel, arg_patterns)) => ret_skip = Some(FALSE)

\* C28: after every up or down in the listing the viewport top lies in
\* [0, max(0, len(entries) - h)], h the rows of the listing panel (here: when
\* it lay there before the key).
TopWithinLastPage ==
  0 <= top_index /\ top_index <= Max(0, Len(entries) - left_h)
C28_TopWithinLastPage ==
  [][(Moved /\ TopWithinLastPage) => TopWithinLastPage']_vars

\* C29: an up or down that leaves the cursor at or below the old top row and
\* more than five rows above the last row of the panel leaves top_index as
\* it was.
C29_LazyScrolling ==
  [][(Moved /\ top_index <= selected'
            /\ selected' + 5 < top_index + left_h - 1)
       => top_index' = top_index]_vars

\* C30: while a selection stays active its anchor selection_start does not
\* change; an up/down key and a click in the preview keep the selection
\* active and the anchor in place, and a click that marks a new line puts
\* selection_end on exactly that line.
C30_AnchorFixed ==
  [][selection_mode =>
       /\ selection_mode' => selection_start' = selection_start
       /\ (SelectionMove \/ MouseRight)
            => (selection_mode' /\ selection_start' = selection_start)
       /\ (MouseRight /\ preview_selected_line' # preview_selected_line)
            => selection_end' = preview_selected_line']_vars
\* a selection anchored at line 1 of the four-line file whose moving line is
\* the sixth row of the pane, which only a click reaches
C30_Witness ==
  /\ selection_mode
  /\ entries # <<>>
  /\ Entry(entries, selected) = "/c"
  /\ selection_start = Some(1)
  /\ selection_end = Some(6)

\* C31: in every reachable state selection_mode is true exactly when
\* selection_start and selection_end are both set, and while it is true the
\* preview cursor line preview_selected_line equals selection_end.
C31_SelectionConsistent ==
  /\ selection_mode <=> (selection_start # None /\ selection_end # None)
  /\ selection_mode => preview_selected_line = selection_end
\* lines are selected and the moving line, put beyond the four lines of the
\* file by a click, is away from the anchor
C31_Witness ==
  /\ selection_mode
  /\ entries # <<>>
  /\ Entry(entries, selected) = "/c"
  /\ selection_start = Some(2)
  /\ selection_end = Some(5)
  /\ preview_selected_line = Some(5)

\* C32: the path handed to the delete on y is the entry that was under the
\* cursor when d,d armed the confirmation: d,d with the cursor on an entry
\* stores that entry, nothing but
\* an answer changes what is stored, and y deletes what is stored and nothing
\* else, whatever a click or a reload did to the cursor in between.
C32_DeletesArmedEntry ==
  [][/\ (lastEvent' = "dd" /\ pending_action = None /\ pending_action' # None
                           /\ 0 <= selected /\ selected < Len(entries))
          => pending_action' = <<"delete", entries[selected + 1]>>
     /\ (pending_action # None /\ pending_action' # None)
          => pending_action' = pending_action
     /\ (lastEvent' = "confirm_yes" /\ pending_action # None
                                    /\ pending_action' = None)
          => /\ pending_action[1] = "delete"
             /\ deleted' = Some(pending_action[2])
             /\ fs \ fs' \subseteq Removed(pending_action[2], fs)]_vars
\* y was answered for /d, armed in the third row, with the cursor meanwhile
\* clicked onto the first row; the delete failed and the listing is as before
C32_Witness ==
  /\ lastEvent = "confirm_yes"
  /\ deleted = Some("/d")
  /\ Len(entries) = 3
  /\ selected = 0

\* C33: while a delete confirmation is pending, a key other than y, Y, n, N
\* and Esc, or a mouse click, changes neither the listing cursor nor the
\* preview scroll and cursor line nor the selection.
C33_PendingFreezesView ==
  [][(pending_action # None /\ (ConfirmOther \/ MouseLeft \/ MouseRight))
       => UNCHANGED <<selected, preview_scroll, preview_selected_line,
                      selectionVars>>]_vars

\* C34: while a non-empty result list is shown, the selected result is one of
\* the rows draw_preview draws: search_selected is not negative and
\* output_scroll <= search_selected < output_scroll + the rows drawn.
ResultRowsDrawn ==
  Len(Slice(search_results, output_scroll, output_scroll + left_h - 2))
C34_SelectedResultDrawn ==
  (search_mode # None /\ search_results # <<>>)
    => /\ 0 <= search_selected
       /\ output_scroll <= search_selected
       /\ search_selected < output_scroll + ResultRowsDrawn

\* C35: whenever a search is active and no delete confirmation is pending,
\* the preview pane shows the result list, also when the output pane was
\* switched on before the search began.
C35_ResultsOnScreen ==
  (search_mode # None /\ pending_action = None) => draw_preview_pane = "results"

\* C36: a reload of the current directory by the ls command or by the poll
\* that finds the listing as it was leaves the listing cursor and the
\* viewport top where they were, also when PositionMemory holds an older
\* position for the directory.
C36_ReloadKeepsCursor ==
  [][((CmdLs \/ Poll) /\ entries' = entries)
       => (selected' = selected /\ top_index' = top_index)]_vars

\* the ways of embedding q in n: strictly increasing positions of n that
\* spell q
Embeddings(q, n) ==
  {f \in [1..Len(q) -> 1..Len(n)] :
     /\ \A i \in 1..Len(q) : n[f[i]] = q[i]
     /\ \A i, j \in 1..Len(q) : i < j => f[i] < f[j]}
\* first to last matched character, inclusive
SpanOf(f) == f[Len(f)] - f[1] + 1
Spans == {SpanOf(f) : f \in Embeddings(LowerStr(arg_query), LowerStr(arg_name))}
SmallestSpan == CHOOSE sp \in Spans : \A t \in Spans : sp <= t
\* the span of the embedding that puts every character of the query at the
\* earliest position it can have
EarliestSpan ==
  LET E == Embeddings(LowerStr(arg_query), LowerStr(arg_name))
  IN SpanOf(CHOOSE f \in E : \A g \in E : \A i \in DOMAIN f : f[i] <= g[i])
\* a call has returned for a non-empty query that the candidate contains
MatchReturned == ret_score # None /\ arg_query # <<>> /\ QueryMatches

\* C37 as stated: for every candidate that contains the query as a
\* case-insensitive subsequence, fuzzy_score is len(query) divided by the
\* smallest span over all ways of embedding the query in the candidate.
C37_TightestSpan ==
  MatchReturned
    => ret_score[1][1] * SmallestSpan = Len(arg_query) * ret_score[1][2]
\* C37: for every candidate that contains the non-empty query as a
\* case-insensitive subsequence, fuzzy_score is len(query) divided by the span
\* of the embedding that matches every query character at its earliest
\* position; that span is at least the smallest span, so the score is at most
\* len(query) / smallest span.
C37_EarliestSpan ==
  MatchReturned
    => /\ ret_score[1][1] * EarliestSpan = Len(arg_query) * ret_score[1][2]
       /\ ret_score[1][1] > 0
       /\ SmallestSpan <= EarliestSpan
\* a call has returned for a query whose earliest embedding is wider than its
\* tightest one
C37_Witness ==
  /\ MatchReturned
  /\ SmallestSpan < EarliestSpan

====
